---------------------------- MODULE Spec2Model ----------------------------
(***************************************************************************)
(* The EEVEE screen-space effects pipeline of                              *)
(* source/blender/draw/engines/eevee/eevee_effects.c, one viewport.        *)
(*                                                                         *)
(* A frame is the call sequence                                            *)
(*   engine init -> EEVEE_effects_init -> EEVEE_effects_cache_init ->      *)
(*   EEVEE_effects_do_ssr -> EEVEE_effects_do_volumetrics ->               *)
(*   EEVEE_draw_effects                                                    *)
(* Textures and framebuffers are identities (strings / records); NULL is   *)
(* the string "NULL" for a texture and NULL_FB for a framebuffer.  The GPU *)
(* commands a frame issues are recorded, in order, in cmds.                *)
(***************************************************************************)
EXTENDS Integers, Sequences, FiniteSets, TLC

VARIABLES
    pc,               \* the next call of the frame
    is_image_render,  \* DRW_state_is_image_render()
    fbl,              \* EEVEE_FramebufferList
    txl,              \* EEVEE_TextureList
    effects,          \* EEVEE_EffectsInfo (stl->effects)
    g_data,           \* EEVEE_PrivateData (stl->g_data)
    volumetrics,      \* EEVEE_VolumetricsInfo (sldata->volumetrics)
    cmds,             \* GPU commands issued so far in this frame
    freed,            \* resources the last EEVEE_effects_init released
    first_frame,      \* the frame is the first one of the viewport
    redraw_requested, \* DRW_viewport_request_redraw() called in this frame
    displayed,        \* texture given to DRW_transform_to_display in this frame
    entry_color,      \* txl->color on entry of EEVEE_draw_effects
    n_exchange,       \* main/double-buffer exchanges done by this EEVEE_draw_effects
    hit_content,      \* what this frame wrote into the attached SSR hit buffers
    animated,         \* the group of options the scene keyframes
    still,            \* the options of the other group
    e_data,           \* the shaders of the static e_data
    compiled,         \* DRW_shader_create calls made so far, per shader
    failed,           \* effects a shader or material creation of this frame failed for
    broken,           \* the shaders the GPU driver does not compile
    props,            \* the options and view state the last EEVEE_effects_init read
    psl,              \* the slots of EEVEE_PassList given a new pass in this frame
    arg,              \* numeric options and sizes a computation of EEVEE_effects_init gets
    result            \* what it computes from them

vars == <<pc, is_image_render, fbl, txl, effects, g_data, volumetrics, cmds,
          freed, first_frame,
          redraw_requested, displayed, entry_color, n_exchange, hit_content,
          animated, still, e_data, compiled, failed, broken, props, psl, arg,
          result>>

\* what no call of a frame writes
scene == <<animated, still, broken, arg, result>>

\* what the calls of a frame work on
viewport == <<pc, is_image_render, fbl, txl, effects, g_data, volumetrics, cmds,
              freed, first_frame, redraw_requested, displayed, entry_color,
              n_exchange, hit_content, e_data, compiled, failed, props, psl>>

\* no computation asked for, none done
Idle == [fn |-> "none"]

shaders == <<e_data, compiled, failed>>

\* what only EEVEE_effects_init and EEVEE_effects_cache_init write
frame_setup == <<shaders, props, psl>>

---------------------------------------------------------------------------
(* Bounds of the model *)

\* largest truncated bloom iteration value (int)maxIter that a frame requests
MaxBloomIter == 2

\* the floats of the model are the integers -MaxFloat .. MaxFloat
MaxFloat == 50

\* largest distance of an integration bound or of a clip plane
MaxDepth == 3

\* largest bloom radius, in halves
MaxRadius2 == 40

\* DRW_shader_create calls counted per shader; the count stays at this value
\* once it is reached
MaxCompiles == 2

(* Program constants *)

MAX_BLOOM_STEP == 16
SSR_MAX_RAYS == 4

MIN2(a, b) == IF a < b THEN a ELSE b
MAX2(a, b) == IF a > b THEN a ELSE b
\* Variant of CLAMP without the lower bound; the ray count of C14 depends
\* on both bounds of line 593.
CLAMP_from_above(x, lo, hi) == MIN2(x, hi)

CLAMP(x, lo, hi) == MAX2(lo, MIN2(x, hi))

EFFECT_MOTION_BLUR == "EFFECT_MOTION_BLUR"
EFFECT_BLOOM == "EFFECT_BLOOM"
EFFECT_DOF == "EFFECT_DOF"
EFFECT_VOLUMETRIC == "EFFECT_VOLUMETRIC"
EFFECT_SSR == "EFFECT_SSR"
EFFECT_DOUBLE_BUFFER == "EFFECT_DOUBLE_BUFFER"

AllEffects == {EFFECT_MOTION_BLUR, EFFECT_BLOOM, EFFECT_DOF, EFFECT_VOLUMETRIC,
               EFFECT_SSR, EFFECT_DOUBLE_BUFFER}

NULL == "NULL"
NULL_FB == [id |-> "NULL", tex |-> <<>>, ntex |-> 0]

BloomIdx == 0 .. (MIN2(MAX_BLOOM_STEP, MaxBloomIter) - 1)
RayIdx == 0 .. (SSR_MAX_RAYS - 1)

\* identity of element i of an array of textures or framebuffers
ElemNames ==
    [base \in {"bloom_down_fb", "bloom_downsample", "bloom_accum_fb",
               "bloom_upsample", "ssr_hit_output"} |->
        [i \in BloomIdx \cup RayIdx |-> base \o "[" \o ToString(i) \o "]"]]
Elem(base, i) == ElemNames[base][i]

\* lines 62-66: SSR shader variations
SSR_RESOLVE == 1
SSR_FULL_TRACE == 2
SSR_MAX_SHADER == 4

\* lines 68-105: the shaders of e_data; those compiled by the block of lines
\* 231-275, and the SSR variations compiled on demand
FixedShaders ==
    {"downsample_sh", "volumetric_upsample_sh",
     "minz_downlevel_sh", "maxz_downlevel_sh",
     "minz_downdepth_sh", "maxz_downdepth_sh",
     "minz_downdepth_layer_sh", "maxz_downdepth_layer_sh",
     "minz_copydepth_sh", "maxz_copydepth_sh",
     "motion_blur_sh",
     "dof_downsample_sh", "dof_scatter_sh", "dof_resolve_sh",
     "bloom_blit_sh[0]", "bloom_blit_sh[1]",
     "bloom_downsample_sh[0]", "bloom_downsample_sh[1]",
     "bloom_upsample_sh[0]", "bloom_upsample_sh[1]",
     "bloom_resolve_sh[0]", "bloom_resolve_sh[1]"}

ssr_sh == [options \in 0 .. (SSR_MAX_SHADER - 1) |->
              "ssr_sh[" \o ToString(options) \o "]"]

SsrShaders == {ssr_sh[options] : options \in 0 .. (SSR_MAX_SHADER - 1)}

ShaderNames == FixedShaders \cup SsrShaders

\* ssr_ray_count values a scene requests
RayCountRequests == {6}

---------------------------------------------------------------------------
(* The draw manager's resource calls *)

\* One DRWFboTexture of a DRW_framebuffer_init call: the texture pointer as
\* it is, the identity a new texture gets, and the DRW_TEX_TEMP flag.
FboTex(ptr, fresh, temp) == [ptr |-> ptr, fresh |-> fresh, temp |-> temp]

\* The texture pointer after DRW_framebuffer_init: a TEMP texture is queried
\* from the viewport pool on every call, another one is created with the
\* framebuffer when the pointer is NULL.
DRW_fbo_texture(t, create_fb) ==
    IF t.temp THEN t.fresh
    ELSE IF t.ptr = NULL /\ create_fb THEN t.fresh
    ELSE t.ptr

\* DRW_framebuffer_init(&fb, ..., textures, n): creates the framebuffer only
\* when it is NULL and attaches the n textures to it (TEMP ones are detached
\* again); an existing framebuffer keeps its attachments.
DRW_framebuffer_init(fb, id, texs) ==
    LET create_fb == (fb = NULL_FB)
        ptrs == [i \in 1 .. Len(texs) |-> DRW_fbo_texture(texs[i], create_fb)]
    IN  [fb  |-> IF create_fb
                 THEN [id   |-> id,
                       tex  |-> [i \in 1 .. Len(texs) |->
                                    IF texs[i].temp THEN NULL ELSE ptrs[i]],
                       ntex |-> Len(texs)]
                 ELSE fb,
         tex |-> ptrs]

---------------------------------------------------------------------------
(* The scene: what EEVEE_effects_init reads from the view layer, the       *)
(* camera and the world                                                    *)

\* The options and view state one call reads: those of the post-process
\* effects and of the reflections, and those of the volumetrics.
\* DRW_MAT_PERS, the view-projection matrix of a frame: the one of a view at
\* rest, the one of a view that has moved, and the zeros of MEM_callocN
Matrices == {"persmat0", "persmat1"}
ZeroMatrix == "zero"

PostOptions(mb, bloom, iter, dof, ssr, rays) ==
    [motion_blur_enable |-> mb, evil_C |-> TRUE, camob |-> TRUE,
     persmat_match |-> TRUE, persmat |-> "persmat0",
     bloom_enable |-> bloom, maxIterInt |-> iter,
     dof_enable |-> dof,
     ssr_enable |-> ssr, ssr_ray_count |-> rays, ssr_halfres |-> TRUE]

VolumetricOptions(vol, world, colored) ==
    [volumetric_enable |-> vol, world_nodes |-> world,
     volumetric_colored_transmittance |-> colored]

Scene(post, vol) ==
    [motion_blur_enable |-> post.motion_blur_enable, evil_C |-> post.evil_C,
     camob |-> post.camob, persmat_match |-> post.persmat_match,
     persmat |-> post.persmat,
     bloom_enable |-> post.bloom_enable, maxIterInt |-> post.maxIterInt,
     dof_enable |-> post.dof_enable,
     ssr_enable |-> post.ssr_enable, ssr_ray_count |-> post.ssr_ray_count,
     ssr_halfres |-> post.ssr_halfres,
     volumetric_enable |-> vol.volumetric_enable,
     world_nodes |-> vol.world_nodes,
     volumetric_colored_transmittance |-> vol.volumetric_colored_transmittance]

BloomChoices == {<<FALSE, 1>>} \cup {<<TRUE, n>> : n \in 1 .. MaxBloomIter}
SsrChoices == {<<FALSE, 1>>} \cup {<<TRUE, n>> : n \in RayCountRequests}

\* every combination of requested effects, each one passing its tests
RegularPost ==
    { PostOptions(mb, bl[1], bl[2], dof, ssr[1], ssr[2]) :
        mb \in BOOLEAN, bl \in BloomChoices, dof \in BOOLEAN,
        ssr \in SsrChoices }

\* everything requested, and one test of the code failing or clamping:
\* no camera view, no context, a viewport matrix that differs from the
\* camera's, an iteration value below 1
EverythingRequested ==
    { PostOptions(TRUE, TRUE, MaxBloomIter, TRUE, TRUE, n) : n \in RayCountRequests }
DegeneratePost ==
    UNION { { [s EXCEPT !.camob = FALSE],
              [s EXCEPT !.evil_C = FALSE],
              [s EXCEPT !.persmat_match = FALSE],
              [s EXCEPT !.maxIterInt = 0] } : s \in EverythingRequested }

\* everything requested, the reflections traced at full resolution
FullTracePost == { [s EXCEPT !.ssr_halfres = FALSE] : s \in EverythingRequested }

\* everything requested, with a ray count below the range and one inside it
OtherRayCounts == {0, 2}
RayPost ==
    { [s EXCEPT !.ssr_ray_count = n] : s \in EverythingRequested, n \in OtherRayCounts }

PostScenes == RegularPost \cup DegeneratePost

\* volumetrics off, monochromatic and colored
RegularVolumetric ==
    { VolumetricOptions(FALSE, FALSE, FALSE), VolumetricOptions(TRUE, TRUE, FALSE),
      VolumetricOptions(TRUE, TRUE, TRUE) }

\* requested with a world that has no node tree
DegenerateVolumetric == { VolumetricOptions(TRUE, FALSE, FALSE) }

VolumetricScenes == RegularVolumetric \cup DegenerateVolumetric

\* A scene keyframes the options of one of the two groups; the options of
\* the other group keep one value through the run.
Animated == {"post", "volumetric"}
StillOptions(group) == IF group = "post" THEN RegularVolumetric ELSE RegularPost

Props ==
    IF animated = "post"
    THEN { Scene(post, still) : post \in PostScenes }
    ELSE { Scene(still, vol) : vol \in VolumetricScenes }

---------------------------------------------------------------------------
(* State after construction: the engine owns fbl->main with txl->color,    *)
(* everything of the effects is NULL (MEM_callocN).                        *)

NoFbArray == [i \in BloomIdx |-> NULL_FB]
NoTexArray == [i \in BloomIdx |-> NULL]

\* the viewport data and the engine data before the first frame
InitViewport ==
    /\ pc = "engine_init"
    /\ is_image_render \in BOOLEAN
    /\ fbl = [main |-> [id |-> "fbA", tex |-> <<"colorA">>, ntex |-> 1],
              double_buffer |-> NULL_FB,
              effect_fb |-> NULL_FB,
              bloom_blit_fb |-> NULL_FB,
              bloom_down_fb |-> NoFbArray,
              bloom_accum_fb |-> NoFbArray,
              dof_down_fb |-> NULL_FB,
              dof_scatter_far_fb |-> NULL_FB,
              dof_scatter_near_fb |-> NULL_FB,
              volumetric_fb |-> NULL_FB,
              screen_tracing_fb |-> NULL_FB,
              downsample_fb |-> NULL_FB]
    /\ txl = [color |-> "colorA",
              color_double_buffer |-> NULL,
              color_post |-> NULL,
              bloom_blit |-> NULL,
              bloom_downsample |-> NoTexArray,
              bloom_upsample |-> NoTexArray,
              dof_down_near |-> NULL,
              dof_down_far |-> NULL,
              dof_coc |-> NULL,
              dof_near_blur |-> NULL,
              dof_far_blur |-> NULL,
              maxzbuffer |-> NULL,
              ssr_normal_input |-> NULL,
              ssr_specrough_input |-> NULL]
    /\ effects = [enabled_effects |-> {},
                  bloom_iteration_ct |-> 0,
                  ssr_ray_count |-> 0,
                  reflection_trace_full |-> FALSE,
                  source_buffer |-> NULL,
                  target_buffer |-> NULL_FB]
    /\ g_data = [valid_double_buffer |-> FALSE,
                 prev_persmat |-> ZeroMatrix,
                 minzbuffer |-> NULL,
                 volumetric |-> NULL,
                 volumetric_transmit |-> NULL,
                 ssr_hit_output |-> [i \in RayIdx |-> NULL]]
    /\ volumetrics = [use_colored_transmit |-> FALSE]
    /\ cmds = <<>>
    /\ freed = {}
    /\ first_frame = TRUE
    /\ redraw_requested = FALSE
    /\ displayed = NULL
    /\ entry_color = NULL
    /\ n_exchange = 0
    /\ hit_content = "none"
    /\ e_data = [s \in ShaderNames |-> NULL]
    /\ compiled = [s \in ShaderNames |-> 0]
    /\ failed = {}
    /\ psl = {}
    /\ props = Scene(PostOptions(FALSE, FALSE, 1, FALSE, FALSE, 1),
                     VolumetricOptions(FALSE, FALSE, FALSE))

\* a scene, on a driver that compiles every shader
Init ==
    /\ InitViewport
    /\ animated \in Animated
    /\ still \in StillOptions(animated)
    /\ broken = {}
    /\ arg = Idle
    /\ result = Idle

---------------------------------------------------------------------------
(* EEVEE_effects_init *)

\* The state one call works on: the lists, and its local enabled_effects.
Heap == [fbl |-> fbl, txl |-> txl, effects |-> effects, g_data |-> g_data,
         volumetrics |-> volumetrics, freed |-> {}, enabled |-> {},
         e_data |-> e_data, compiled |-> compiled, failed |-> failed]

\* DRW_shader_create, DRW_shader_create_fullscreen: the shader, or NULL when
\* the driver does not compile it
DRW_shader_create(s, B) == IF s \in B THEN NULL ELSE s

\* the effect whose passes use shader s ("none" for the shaders of the
\* downsampling and of the depth pyramids)
ShaderEffect(s) ==
    CASE s = "motion_blur_sh" -> EFFECT_MOTION_BLUR
      [] s \in {"dof_downsample_sh", "dof_scatter_sh", "dof_resolve_sh"} -> EFFECT_DOF
      [] s \in {"bloom_blit_sh[0]", "bloom_blit_sh[1]", "bloom_downsample_sh[0]",
                "bloom_downsample_sh[1]", "bloom_upsample_sh[0]",
                "bloom_upsample_sh[1]", "bloom_resolve_sh[0]",
                "bloom_resolve_sh[1]"} -> EFFECT_BLOOM
      [] s = "volumetric_upsample_sh" -> EFFECT_VOLUMETRIC
      [] s \in SsrShaders -> EFFECT_SSR
      [] OTHER -> "none"

\* the state after DRW_shader_create of each shader of S; X has the fields
\* e_data, compiled and failed
compile(X, S, B) ==
    [X EXCEPT
        !.e_data = [s \in ShaderNames |->
                       IF s \in S THEN DRW_shader_create(s, B) ELSE X.e_data[s]],
        !.compiled = [s \in ShaderNames |->
                         IF s \in S THEN MIN2(X.compiled[s] + 1, MaxCompiles)
                         ELSE X.compiled[s]],
        !.failed = @ \cup ({ShaderEffect(s) : s \in S \cap B} \ {"none"})]

\* lines 230-275: every fixed shader is created when motion_blur_sh is NULL
init_shaders(H, B) ==
    IF H.e_data["motion_blur_sh"] = NULL THEN compile(H, FixedShaders, B) ELSE H

\* Variant of init_motion_blur without the comparison of the matrices; the
\* gate of C12 depends on the test of line 303.
init_motion_blur_keyed(H, p) ==
    IF p.motion_blur_enable /\ p.evil_C /\ p.camob
    THEN [H EXCEPT !.enabled = @ \cup {EFFECT_MOTION_BLUR}]
    ELSE H

\* lines 289-318: motion blur needs a context, a camera view and a camera
\* matrix that matches the viewport's
init_motion_blur(H, p) ==
    IF p.motion_blur_enable /\ p.evil_C /\ p.camob /\ p.persmat_match
    THEN [H EXCEPT !.enabled = @ \cup {EFFECT_MOTION_BLUR}]
    ELSE H

\* floor(log2(n)), n >= 1
RECURSIVE floor_log2(_)
floor_log2(n) == IF n < 2 THEN 0 ELSE 1 + floor_log2(n \div 2)

\* lines 345-347: (int)((radius - 8.0f) + log(minDim) / log(2)), the cast
\* truncating towards zero.  The radius is radius2 / 2; twice the sum lies
\* between lo and hi, floor and ceiling of 2 * log2(minDim) being
\* floor_log2(minDim^2) and that plus one unless minDim^2 is a power of two.
bloom_maxIterInt(radius2, minDim) ==
    LET sq == minDim * minDim
        lo == (radius2 - 16) + floor_log2(sq)
        hi == IF sq = 2 ^ floor_log2(sq) THEN lo ELSE lo + 1
    IN  IF lo >= 0 THEN lo \div 2 ELSE -((-hi) \div 2)

\* Variant of bloom_iteration_count that clamps from above only; the range
\* of C13 depends on the lower bound of line 350.
bloom_iteration_count_unclamped_below(maxIterInt) ==
    MIN2(maxIterInt, MAX_BLOOM_STEP)

\* lines 345-350: the iteration count
bloom_iteration_count(maxIterInt) == CLAMP(maxIterInt, 1, MAX_BLOOM_STEP)

\* lines 320-389
init_bloom(H, p) ==
    IF p.bloom_enable
    THEN LET ct == bloom_iteration_count(p.maxIterInt)
             blit == DRW_framebuffer_init(H.fbl.bloom_blit_fb, "bloom_blit_fb",
                         <<FboTex(H.txl.bloom_blit, "bloom_blit", FALSE)>>)
             down(i) == DRW_framebuffer_init(H.fbl.bloom_down_fb[i],
                            Elem("bloom_down_fb", i),
                            <<FboTex(H.txl.bloom_downsample[i],
                                     Elem("bloom_downsample", i), FALSE)>>)
             accum(i) == DRW_framebuffer_init(H.fbl.bloom_accum_fb[i],
                            Elem("bloom_accum_fb", i),
                            <<FboTex(H.txl.bloom_upsample[i],
                                     Elem("bloom_upsample", i), FALSE)>>)
         IN  [H EXCEPT
                !.fbl.bloom_blit_fb = blit.fb,
                !.txl.bloom_blit = blit.tex[1],
                !.effects.bloom_iteration_ct = ct,
                !.fbl.bloom_down_fb =
                    [i \in BloomIdx |-> IF i < ct THEN down(i).fb ELSE @[i]],
                !.txl.bloom_downsample =
                    [i \in BloomIdx |-> IF i < ct THEN down(i).tex[1] ELSE @[i]],
                !.fbl.bloom_accum_fb =
                    [i \in BloomIdx |-> IF i < ct - 1 THEN accum(i).fb ELSE @[i]],
                !.txl.bloom_upsample =
                    [i \in BloomIdx |-> IF i < ct - 1 THEN accum(i).tex[1] ELSE @[i]],
                !.enabled = @ \cup {EFFECT_BLOOM}]
    ELSE H

\* Variant of dof_fb_reset that sees bloom being enabled and misses it being
\* disabled; the rebuild of C9 depends on both branches of lines 407-415.
dof_fb_reset_on_bloom_only(bloom_now, bloom_recorded) ==
    bloom_now /\ ~bloom_recorded

\* lines 403-415: the near-field target changes when bloom's state differs
\* from the one recorded by the previous call
dof_fb_reset(bloom_now, bloom_recorded) == (bloom_now # bloom_recorded)

\* lines 391-468
init_dof(H, p) ==
    IF p.dof_enable /\ p.camob
    THEN LET bloom_now == EFFECT_BLOOM \in H.enabled
             fb_reset == dof_fb_reset(bloom_now,
                                      EFFECT_BLOOM \in H.effects.enabled_effects)
             do_free == fb_reset /\ H.fbl.dof_down_fb # NULL_FB
             fb0 == IF do_free THEN NULL_FB ELSE H.fbl.dof_down_fb
             near == IF bloom_now
                     THEN FboTex(H.txl.bloom_downsample[0],
                                 Elem("bloom_downsample", 0), FALSE)
                     ELSE FboTex(H.txl.dof_down_near, "dof_down_near", FALSE)
             down == DRW_framebuffer_init(fb0, "dof_down_fb",
                         <<near,
                           FboTex(H.txl.dof_down_far, "dof_down_far", FALSE),
                           FboTex(H.txl.dof_coc, "dof_coc", FALSE)>>)
             far == DRW_framebuffer_init(H.fbl.dof_scatter_far_fb,
                         "dof_scatter_far_fb",
                         <<FboTex(H.txl.dof_far_blur, "dof_far_blur", FALSE)>>)
             nearb == DRW_framebuffer_init(H.fbl.dof_scatter_near_fb,
                         "dof_scatter_near_fb",
                         <<FboTex(H.txl.dof_near_blur, "dof_near_blur", FALSE)>>)
         IN  [H EXCEPT
                !.freed = IF do_free THEN @ \cup {"dof_down_fb"} ELSE @,
                !.fbl.dof_down_fb = down.fb,
                !.txl.bloom_downsample[0] = IF bloom_now THEN down.tex[1] ELSE @,
                !.txl.dof_down_near = IF bloom_now THEN @ ELSE down.tex[1],
                !.txl.dof_down_far = down.tex[2],
                !.txl.dof_coc = down.tex[3],
                !.fbl.dof_scatter_far_fb = far.fb,
                !.txl.dof_far_blur = far.tex[1],
                !.fbl.dof_scatter_near_fb = nearb.fb,
                !.txl.dof_near_blur = nearb.tex[1],
                !.enabled = @ \cup {EFFECT_DOF}]
    ELSE H

\* Variant of init_ping_pong that records the bits and allocates nothing;
\* the passes of C4 depend on the ping-pong buffer of lines 473-480.
init_ping_pong_unallocated(H) ==
    [H EXCEPT !.effects.enabled_effects = H.enabled]

\* lines 470-480: record the bits, allocate the ping-pong buffer
init_ping_pong(H) ==
    LET pp == DRW_framebuffer_init(H.fbl.effect_fb, "effect_fb",
                  <<FboTex(H.txl.color_post, "color_post", FALSE)>>)
    IN  IF H.enabled # {}
        THEN [H EXCEPT !.effects.enabled_effects = H.enabled,
                       !.fbl.effect_fb = pp.fb,
                       !.txl.color_post = pp.tex[1]]
        ELSE [H EXCEPT !.effects.enabled_effects = H.enabled]

\* lines 489-499: the min/max depth pyramid
init_minmax(H) ==
    LET ds == DRW_framebuffer_init(H.fbl.downsample_fb, "downsample_fb",
                  <<FboTex(H.g_data.minzbuffer, "minzbuffer", TRUE)>>)
    IN  [H EXCEPT !.fbl.downsample_fb = ds.fb,
                  !.g_data.minzbuffer = ds.tex[1],
                  !.txl.maxzbuffer = IF @ = NULL THEN "maxzbuffer" ELSE @]

\* Variant of volumetric_fb_reset that never invalidates the framebuffer;
\* the number of targets of C10 depends on the test of line 546.
volumetric_fb_reset_never(last_use_colored_transmit, use_colored_transmit) ==
    FALSE

\* the largest float
FLT_MAX == MaxFloat

\* lines 328-329 and 360-364: the size of fbl->bloom_down_fb[0] and of
\* txl->bloom_downsample[0], half the blit size and at least 2
bloom_downsample_size(viewport_size) ==
    <<MAX2(viewport_size[1] \div 2, 2), MAX2(viewport_size[2] \div 2, 2)>>

\* line 400: the size of the depth of field framebuffers
dof_buffer_size(viewport_size) ==
    <<viewport_size[1] \div 2, viewport_size[2] \div 2>>

\* lines 983 and 1000: the number of levels asked of the downsample
MAX_MIP_LEVELS == 8

\* lines 492-499: the top level of minzbuffer and of maxzbuffer has half the
\* size of the viewport, the division being the one of int
minmax_top_level(viewport_size) ==
    <<viewport_size[1] \div 2, viewport_size[2] \div 2>>

\* The draw manager's mip chain builder: it halves the size and renders
\* the next level until num_iter levels are made or the size is 1 x 1; a
\* side that has reached 1 stays, and a side of 0 has nothing to halve.
RECURSIVE DRW_framebuffer_recursive_downsample(_, _)
DRW_framebuffer_recursive_downsample(levels, num_iter) ==
    LET dim == levels[Len(levels)]
        half(d) == IF d > 1 THEN d \div 2 ELSE d
    IN  IF Len(levels) - 1 < num_iter /\ (dim[1] > 1 \/ dim[2] > 1)
        THEN DRW_framebuffer_recursive_downsample(
                 Append(levels, <<half(dim[1]), half(dim[2])>>), num_iter)
        ELSE levels

\* lines 965-1002: each pyramid is its top level, filled from the depth
\* buffer, and the levels made by the downsample
EEVEE_create_minmax_buffer(viewport_size) ==
    LET top == minmax_top_level(viewport_size)
    IN  [minzbuffer |-> DRW_framebuffer_recursive_downsample(<<top>>, MAX_MIP_LEVELS),
         maxzbuffer |-> DRW_framebuffer_recursive_downsample(<<top>>, MAX_MIP_LEVELS)]

\* Variant of volumetric_light_clamp that keeps the option as it is; the
\* value of C15 depends on lines 536-538.
volumetric_light_clamp_kept(light_clamp) == light_clamp

\* lines 533-538: a clamp of 0 disables the clamp
volumetric_light_clamp(light_clamp) ==
    IF light_clamp = 0 THEN FLT_MAX ELSE light_clamp

\* lines 515-528: the bounds are negated in a perspective view; in the other
\* views both are computed from the configured end, line 526 reading
\* integration_end before line 527 writes it
volumetric_integration_bounds(persp, start, end, clip_start, clip_end) ==
    IF persp
    THEN [integration_start |-> -start, integration_end |-> -end]
    ELSE [integration_start |-> MIN2(end, clip_start),
          integration_end   |-> MAX2(-end, clip_end)]

\* lines 544-549: a change of the transmittance mode invalidates the
\* integration framebuffer
volumetric_fb_reset(last_use_colored_transmit, use_colored_transmit) ==
    last_use_colored_transmit # use_colored_transmit

\* lines 501-571
init_volumetrics(H, p) ==
    IF p.volumetric_enable /\ p.world_nodes
    THEN LET last_use_colored_transmit == H.volumetrics.use_colored_transmit
             colored == p.volumetric_colored_transmittance
             do_free == /\ volumetric_fb_reset(last_use_colored_transmit, colored)
                        /\ H.fbl.volumetric_fb # NULL_FB
             fb0 == IF do_free THEN NULL_FB ELSE H.fbl.volumetric_fb
             vol == FboTex(H.g_data.volumetric, "volumetric", TRUE)
             trn == FboTex(H.g_data.volumetric_transmit, "volumetric_transmit", TRUE)
             r == IF ~colored
                  THEN DRW_framebuffer_init(fb0, "volumetric_fb", <<vol>>)
                  ELSE DRW_framebuffer_init(fb0, "volumetric_fb", <<vol, trn>>)
         IN  [H EXCEPT
                !.effects.enabled_effects = @ \cup {EFFECT_VOLUMETRIC},
                !.volumetrics.use_colored_transmit = colored,
                !.freed = IF do_free THEN @ \cup {"volumetric_fb"} ELSE @,
                !.fbl.volumetric_fb = r.fb,
                !.g_data.volumetric = r.tex[1],
                !.g_data.volumetric_transmit = IF colored THEN r.tex[2] ELSE @]
    ELSE H

\* the identities a new double buffer gets: the ones fbl->main and
\* txl->color do not have
other_fb(id) == IF id = "fbA" THEN "fbB" ELSE "fbA"
other_color(t) == IF t = "colorA" THEN "colorB" ELSE "colorA"

\* DRW_TEXTURE_FREE_SAFE / DRW_FRAMEBUFFER_FREE_SAFE: what a call releases
released(name, is_null) == IF is_null THEN {} ELSE {name}

\* lines 573-639
init_ssr(H, p) ==
    IF p.ssr_enable
    THEN LET ray_count == CLAMP(p.ssr_ray_count, 1, SSR_MAX_RAYS)
             tex_output == [i \in 1 .. SSR_MAX_RAYS |->
                               FboTex(H.g_data.ssr_hit_output[i - 1],
                                      Elem("ssr_hit_output", i - 1), TRUE)]
             r == DRW_framebuffer_init(H.fbl.screen_tracing_fb, "screen_tracing_fb",
                                       SubSeq(tex_output, 1, ray_count))
         IN  [H EXCEPT
                !.effects.enabled_effects = @ \cup {EFFECT_SSR, EFFECT_DOUBLE_BUFFER},
                !.effects.ssr_ray_count = ray_count,
                !.effects.reflection_trace_full = ~p.ssr_halfres,
                !.txl.ssr_normal_input = IF @ = NULL THEN "ssr_normal_input" ELSE @,
                !.txl.ssr_specrough_input = IF @ = NULL THEN "ssr_specrough_input" ELSE @,
                !.fbl.screen_tracing_fb = r.fb,
                !.g_data.ssr_hit_output =
                    [i \in RayIdx |-> IF i < ray_count THEN r.tex[i + 1] ELSE @[i]]]
    ELSE [H EXCEPT
            !.freed = @ \cup released("ssr_normal_input", H.txl.ssr_normal_input = NULL)
                        \cup released("ssr_specrough_input",
                                      H.txl.ssr_specrough_input = NULL)
                        \cup released("screen_tracing_fb",
                                      H.fbl.screen_tracing_fb = NULL_FB),
            !.txl.ssr_normal_input = NULL,
            !.txl.ssr_specrough_input = NULL,
            !.fbl.screen_tracing_fb = NULL_FB,
            !.g_data.ssr_hit_output = [i \in RayIdx |-> NULL]]

\* Variant of init_double_buffer that takes the release branch whatever the
\* bits are; the history of C7 depends on the allocation of lines 642-648.
init_double_buffer_released(H) ==
    [H EXCEPT
        !.freed = @ \cup released("color_double_buffer",
                                  H.txl.color_double_buffer = NULL)
                    \cup released("double_buffer", H.fbl.double_buffer = NULL_FB),
        !.txl.color_double_buffer = NULL,
        !.fbl.double_buffer = NULL_FB]

\* Variant of init_double_buffer without the release of lines 649-653; the
\* NULL history of C24 depends on it.
init_double_buffer_kept(H) ==
    IF EFFECT_DOUBLE_BUFFER \in H.effects.enabled_effects
    THEN LET r == DRW_framebuffer_init(H.fbl.double_buffer, other_fb(H.fbl.main.id),
                      <<FboTex(H.txl.color_double_buffer,
                               other_color(H.txl.color), FALSE)>>)
         IN  [H EXCEPT !.fbl.double_buffer = r.fb,
                       !.txl.color_double_buffer = r.tex[1]]
    ELSE H

\* lines 641-653
init_double_buffer(H) ==
    IF EFFECT_DOUBLE_BUFFER \in H.effects.enabled_effects
    THEN LET r == DRW_framebuffer_init(H.fbl.double_buffer, other_fb(H.fbl.main.id),
                      <<FboTex(H.txl.color_double_buffer,
                               other_color(H.txl.color), FALSE)>>)
         IN  [H EXCEPT !.fbl.double_buffer = r.fb,
                       !.txl.color_double_buffer = r.tex[1]]
    ELSE [H EXCEPT
            !.freed = @ \cup released("color_double_buffer",
                                      H.txl.color_double_buffer = NULL)
                        \cup released("double_buffer", H.fbl.double_buffer = NULL_FB),
            !.txl.color_double_buffer = NULL,
            !.fbl.double_buffer = NULL_FB]

\* lines 213-654: the state after the blocks, run in the order of the code
\* (motion blur first), as a set of one element
effects_init(H, p) ==
    { init_double_buffer(h7) :
        h7 \in { init_ssr(h6, p) :
        h6 \in { init_volumetrics(h5, p) :
        h5 \in { init_minmax(h4) :
        h4 \in { init_ping_pong(h3) :
        h3 \in { init_dof(h2, p) :
        h2 \in { init_bloom(h1, p) :
        h1 \in { init_motion_blur(h0, p) :
        h0 \in { init_shaders(H, broken) } } } } } } } } }

\* one call, its options taken from the set P
effects_init_from(P) ==
    /\ pc = "effects_init"
    /\ \E p \in P :
         \E H \in effects_init(Heap, p) :
             /\ fbl' = H.fbl
             /\ txl' = H.txl
             /\ effects' = H.effects
             /\ g_data' = H.g_data
             /\ volumetrics' = H.volumetrics
             /\ freed' = H.freed
             /\ e_data' = H.e_data
             /\ compiled' = H.compiled
             /\ failed' = H.failed
             /\ props' = p
    /\ pc' = "cache_init"
    /\ UNCHANGED <<scene, is_image_render, cmds, first_frame, redraw_requested, displayed,
                   entry_color, n_exchange, hit_content, psl>>

EEVEE_effects_init == effects_init_from(Props)

---------------------------------------------------------------------------
(* The engine's per-frame start, ahead of EEVEE_effects_init: the history  *)
(* is valid when a color history buffer exists from an earlier frame.      *)

EEVEE_engine_init ==
    /\ pc = "engine_init"
    /\ g_data' = [g_data EXCEPT !.valid_double_buffer =
                                    (txl.color_double_buffer # NULL)]
    /\ cmds' = <<>>
    /\ redraw_requested' = FALSE
    /\ displayed' = NULL
    /\ entry_color' = NULL
    /\ n_exchange' = 0
    /\ hit_content' = "none"
    /\ first_frame' = (first_frame /\ displayed = NULL)
    /\ failed' = {}
    /\ psl' = {}
    /\ pc' = "effects_init"
    /\ UNCHANGED <<scene, is_image_render, fbl, txl, effects, volumetrics, freed,
                   e_data, compiled, props>>

---------------------------------------------------------------------------
(* EEVEE_effects_cache_init *)

\* lines 684-740: the volumetric passes; a material that did not compile
\* (grp_ok false) takes the effect out of the frame
cache_volumetrics(enabled_effects, grp_ok) ==
    IF EFFECT_VOLUMETRIC \in enabled_effects /\ ~grp_ok
    THEN enabled_effects \ {EFFECT_VOLUMETRIC}
    ELSE enabled_effects

\* lines 794-841: the passes of the color downsample and of the depth
\* pyramids
UtilityPasses ==
    {"color_downsample_ps", "minz_downlevel_ps", "maxz_downlevel_ps",
     "minz_downdepth_ps", "maxz_downdepth_ps", "minz_downdepth_layer_ps",
     "maxz_downdepth_layer_ps", "minz_copydepth_ps", "maxz_copydepth_ps"}

\* lines 684-944, the DRW_pass_create calls of one EEVEE_effects_cache_init:
\* the volumetric and the reflection passes are inside the test of their
\* bit, the other blocks have no test
cache_passes(enabled_effects, grp_ok, use_colored_transmit) ==
    (IF EFFECT_VOLUMETRIC \in enabled_effects
     THEN {"volumetric_integrate_ps"}
          \cup (IF grp_ok THEN {"volumetric_resolve_ps"} ELSE {})
          \cup (IF grp_ok /\ use_colored_transmit
                THEN {"volumetric_resolve_transmit_ps"} ELSE {})
     ELSE {})
    \cup (IF EFFECT_SSR \in enabled_effects
          THEN {"ssr_raytrace", "ssr_resolve"} ELSE {})
    \cup UtilityPasses
    \cup {"motion_blur"}
    \cup {"bloom_downsample_first", "bloom_downsample", "bloom_upsample",
          "bloom_blit", "bloom_resolve"}
    \cup {"dof_down", "dof_scatter", "dof_resolve"}

\* lines 177-211: an SSR variation is created when its slot is NULL
eevee_effects_ssr_shader_get(X, options, B) ==
    IF X.e_data[ssr_sh[options]] = NULL
    THEN compile(X, {ssr_sh[options]}, B)
    ELSE X

\* lines 742-746: the trace and the resolve shader of the frame's resolution
cache_ssr(X, B) ==
    IF EFFECT_SSR \in X.effects.enabled_effects
    THEN LET options == IF X.effects.reflection_trace_full
                        THEN SSR_FULL_TRACE ELSE 0
         IN  eevee_effects_ssr_shader_get(
                 eevee_effects_ssr_shader_get(X, options, B),
                 SSR_RESOLVE + options, B)
    ELSE X

\* what the call works on, the volumetric block done
CacheState(grp_ok) ==
    [effects  |-> [effects EXCEPT !.enabled_effects = cache_volumetrics(@, grp_ok)],
     e_data   |-> e_data,
     compiled |-> compiled,
     failed   |-> IF EFFECT_VOLUMETRIC \in effects.enabled_effects /\ ~grp_ok
                  THEN failed \cup {EFFECT_VOLUMETRIC} ELSE failed]

\* lines 674-945; grp_ok is DRW_shgroup_material_create's result being non-NULL
EEVEE_effects_cache_init ==
    /\ pc = "cache_init"
    /\ \E grp_ok \in (IF EFFECT_VOLUMETRIC \in effects.enabled_effects
                      THEN BOOLEAN ELSE {TRUE}) :
         \E X \in { cache_ssr(x, broken) : x \in { CacheState(grp_ok) } } :
             /\ effects' = X.effects
             /\ e_data' = X.e_data
             /\ compiled' = X.compiled
             /\ failed' = X.failed
             /\ psl' = cache_passes(effects.enabled_effects, grp_ok,
                                    volumetrics.use_colored_transmit)
    /\ freed' = {}
    /\ pc' = "do_ssr"
    /\ UNCHANGED <<scene, props, is_image_render, fbl, txl, g_data, volumetrics, cmds,
                   first_frame, redraw_requested, displayed,
                   entry_color, n_exchange, hit_content>>

---------------------------------------------------------------------------
(* GPU commands *)

depth == "depth"                  \* dtxl->depth
default_fb == [id |-> "default_fb", tex |-> <<"default_color">>, ntex |-> 1]

Bind(fb) == [op |-> "bind", pass |-> "", fb |-> fb, reads |-> {}]
Draw(pass, fb, reads) == [op |-> "draw", pass |-> pass, fb |-> fb, reads |-> reads]
Clear(fb, col) == [op |-> "clear", pass |-> col, fb |-> fb, reads |-> {}]
Attach(fb, tex) == [op |-> "attach", pass |-> "", fb |-> fb, reads |-> {tex}]
Detach(tex) == [op |-> "detach", pass |-> "", fb |-> NULL_FB, reads |-> {tex}]
Downsample(fb, tex) == [op |-> "downsample", pass |-> "color_downsample_ps",
                        fb |-> fb, reads |-> {tex}]
Display(tex) == [op |-> "display", pass |-> "", fb |-> default_fb, reads |-> {tex}]

---------------------------------------------------------------------------
(* EEVEE_effects_do_ssr *)

\* Variant of ssr_do_raytrace that traces whatever the history is; the
\* content of the hit buffers in C5 depends on the test of line 1079.
ssr_do_raytrace_always(valid_double_buffer) == TRUE

\* lines 1079-1086: raytrace with a valid history, else clear the hit
\* buffers to (0, 0, -1, 0.001)
ssr_do_raytrace(valid_double_buffer) == valid_double_buffer

\* lines 1062-1106
EEVEE_effects_do_ssr ==
    /\ pc = "do_ssr"
    /\ IF EFFECT_SSR \in effects.enabled_effects
       THEN LET fb == fbl.screen_tracing_fb
                hits == [i \in 1 .. effects.ssr_ray_count |->
                            g_data.ssr_hit_output[i - 1]]
                trace == ssr_do_raytrace(g_data.valid_double_buffer)
            IN  /\ cmds' = cmds
                     \o [i \in 1 .. Len(hits) |-> Attach(fb, hits[i])]
                     \o <<Bind(fb)>>
                     \o (IF trace
                         THEN <<Draw("ssr_raytrace", fb,
                                     {depth, txl.ssr_normal_input,
                                      txl.ssr_specrough_input, txl.maxzbuffer,
                                      g_data.minzbuffer})>>
                         ELSE <<Clear(fb, "0,0,-1,0.001")>>)
                     \o [i \in 1 .. Len(hits) |-> Detach(hits[i])]
                     \o <<Downsample(fbl.downsample_fb, txl.color_double_buffer)>>
                     \o <<Detach(depth), Detach(txl.ssr_normal_input),
                          Detach(txl.ssr_specrough_input), Bind(fbl.main),
                          Draw("ssr_resolve", fbl.main,
                               {depth, txl.ssr_normal_input, txl.ssr_specrough_input,
                                txl.color_double_buffer, g_data.prev_persmat}
                               \cup {hits[i] : i \in 1 .. Len(hits)}),
                          Attach(fbl.main, depth),
                          Attach(fbl.main, txl.ssr_normal_input),
                          Attach(fbl.main, txl.ssr_specrough_input)>>
                /\ hit_content' = IF trace THEN "raytrace" ELSE "0,0,-1,0.001"
       ELSE UNCHANGED <<cmds, hit_content>>
    /\ pc' = "do_volumetrics"
    /\ UNCHANGED <<scene, frame_setup, is_image_render, fbl, txl, effects, g_data, volumetrics,
                   freed, first_frame, redraw_requested, displayed,
                   entry_color, n_exchange>>

---------------------------------------------------------------------------
(* EEVEE_effects_do_volumetrics, lines 1022-1060 *)

EEVEE_effects_do_volumetrics ==
    /\ pc = "do_volumetrics"
    /\ IF EFFECT_VOLUMETRIC \in effects.enabled_effects
       THEN LET fb == fbl.volumetric_fb
                colored == volumetrics.use_colored_transmit
                transmit(c) == IF colored THEN <<c>> ELSE <<>>
            IN  cmds' = cmds
                  \o <<Attach(fb, g_data.volumetric)>>
                  \o transmit(Attach(fb, g_data.volumetric_transmit))
                  \o <<Bind(fb),
                       Draw("volumetric_integrate_ps", fb, {depth}),
                       Detach(depth), Bind(fbl.main)>>
                  \o transmit(Draw("volumetric_resolve_transmit_ps", fbl.main,
                                   {depth, g_data.volumetric_transmit}))
                  \o <<Draw("volumetric_resolve_ps", fbl.main,
                            {depth, g_data.volumetric}),
                       Attach(fbl.main, depth), Detach(g_data.volumetric)>>
                  \o transmit(Detach(g_data.volumetric_transmit))
                  \o <<Bind(fbl.main)>>
       ELSE UNCHANGED cmds
    /\ pc' = "draw_effects"
    /\ UNCHANGED <<scene, frame_setup, is_image_render, fbl, txl, effects, g_data, volumetrics,
                   freed, first_frame, redraw_requested, displayed,
                   entry_color, n_exchange, hit_content>>

---------------------------------------------------------------------------
(* EEVEE_draw_effects *)

\* The state the function works on: the lists, its local swap_double_buffer,
\* the commands issued, the number of main/double-buffer exchanges and the
\* texture given to DRW_transform_to_display.
DrawState == [fbl |-> fbl, txl |-> txl, effects |-> effects,
              swap_double_buffer |-> EFFECT_DOUBLE_BUFFER \in effects.enabled_effects,
              cmds |-> cmds, n_exchange |-> 0, displayed |-> NULL]

Emit(D, c) == [D EXCEPT !.cmds = @ \o c]

\* Variant of SWAP_DOUBLE_BUFFERS that leaves swap_double_buffer set; the
\* exchange count of C1 depends on the flag being cleared.
SWAP_DOUBLE_BUFFERS_flag_kept(D) ==
    IF D.swap_double_buffer
    THEN [D EXCEPT !.fbl.main = D.fbl.double_buffer,
                   !.fbl.double_buffer = D.fbl.main,
                   !.txl.color = D.txl.color_double_buffer,
                   !.txl.color_double_buffer = D.txl.color,
                   !.n_exchange = @ + 1]
    ELSE D

\* Variant of SWAP_DOUBLE_BUFFERS that exchanges nothing; the history of C28
\* depends on the exchange.
SWAP_DOUBLE_BUFFERS_never(D) == D

\* Variant of SWAP_DOUBLE_BUFFERS that exchanges the lists without testing
\* swap_double_buffer; the identities of C29 depend on the test of line 1109.
SWAP_DOUBLE_BUFFERS_untested(D) ==
    [D EXCEPT !.fbl.main = D.fbl.double_buffer,
              !.fbl.double_buffer = D.fbl.main,
              !.txl.color = D.txl.color_double_buffer,
              !.txl.color_double_buffer = D.txl.color,
              !.swap_double_buffer = FALSE,
              !.n_exchange = @ + 1]

\* lines 1108-1114
SWAP_DOUBLE_BUFFERS(D) ==
    IF D.swap_double_buffer
    THEN [D EXCEPT !.fbl.main = D.fbl.double_buffer,
                   !.fbl.double_buffer = D.fbl.main,
                   !.txl.color = D.txl.color_double_buffer,
                   !.txl.color_double_buffer = D.txl.color,
                   !.swap_double_buffer = FALSE,
                   !.n_exchange = @ + 1]
    ELSE D

\* Variant of SWAP_BUFFERS that takes the new source and target from the
\* lists as they were before SWAP_DOUBLE_BUFFERS; the pairs of C27 depend on
\* the exchange of lines 1118 and 1123 coming first.
SWAP_BUFFERS_before_exchange(D) ==
    IF D.effects.source_buffer = D.txl.color
    THEN LET D1 == SWAP_DOUBLE_BUFFERS(D)
         IN  [D1 EXCEPT !.effects.source_buffer = D.txl.color_post,
                        !.effects.target_buffer = D.fbl.main]
    ELSE LET D1 == SWAP_DOUBLE_BUFFERS(D)
         IN  [D1 EXCEPT !.effects.source_buffer = D.txl.color,
                        !.effects.target_buffer = D.fbl.effect_fb]

\* Variant of SWAP_BUFFERS without the branch of lines 1122-1126: from a
\* source other than txl->color the roles stay; one flip for each enabled
\* block (C20) depends on both branches.
SWAP_BUFFERS_to_post_only(D) ==
    IF D.effects.source_buffer = D.txl.color
    THEN LET D1 == SWAP_DOUBLE_BUFFERS(D)
         IN  [D1 EXCEPT !.effects.source_buffer = D1.txl.color_post,
                        !.effects.target_buffer = D1.fbl.main]
    ELSE SWAP_DOUBLE_BUFFERS(D)

\* lines 1116-1127
SWAP_BUFFERS(D) ==
    IF D.effects.source_buffer = D.txl.color
    THEN LET D1 == SWAP_DOUBLE_BUFFERS(D)
         IN  [D1 EXCEPT !.effects.source_buffer = D1.txl.color_post,
                        !.effects.target_buffer = D1.fbl.main]
    ELSE LET D1 == SWAP_DOUBLE_BUFFERS(D)
         IN  [D1 EXCEPT !.effects.source_buffer = D1.txl.color,
                        !.effects.target_buffer = D1.fbl.effect_fb]

\* Variant of draw_begin that starts from the ping-pong texture; the
\* pass-through of C2 depends on the source being txl->color.
draw_begin_from_post(D) ==
    Emit([D EXCEPT !.effects.source_buffer = D.txl.color_post,
                   !.effects.target_buffer = D.fbl.main],
         <<Detach(depth)>>)

\* lines 1144-1149
draw_begin(D) ==
    Emit([D EXCEPT !.effects.source_buffer = D.txl.color,
                   !.effects.target_buffer = D.fbl.effect_fb],
         <<Detach(depth)>>)

\* Variant of draw_motion_blur that exchanges source and target at the end
\* of the block whether or not the effect is enabled; the absent block being
\* a no-op (C19) and the count of flips (C20) depend on SWAP_BUFFERS being
\* inside the test of line 1152.
draw_motion_blur_swap_always(D) ==
    IF EFFECT_MOTION_BLUR \in D.effects.enabled_effects
    THEN SWAP_BUFFERS(Emit(D,
            <<Bind(D.effects.target_buffer),
              Draw("motion_blur", D.effects.target_buffer,
                   {D.effects.source_buffer, depth})>>))
    ELSE SWAP_BUFFERS(D)

\* lines 1151-1156
draw_motion_blur(D) ==
    IF EFFECT_MOTION_BLUR \in D.effects.enabled_effects
    THEN SWAP_BUFFERS(Emit(D,
            <<Bind(D.effects.target_buffer),
              Draw("motion_blur", D.effects.target_buffer,
                   {D.effects.source_buffer, depth})>>))
    ELSE D

\* lines 1173-1180: the texture the near scatter reads
dof_near_source(D) ==
    IF EFFECT_BLOOM \in D.effects.enabled_effects
    THEN D.txl.bloom_downsample[0]
    ELSE D.txl.dof_down_near

\* lines 1158-1190
draw_dof(D) ==
    IF EFFECT_DOF \in D.effects.enabled_effects
    THEN LET far == D.txl.dof_down_far
             near == dof_near_source(D)
         IN  SWAP_BUFFERS(Emit(D,
                <<Bind(D.fbl.dof_down_fb),
                  Draw("dof_down", D.fbl.dof_down_fb,
                       {D.effects.source_buffer, depth}),
                  Bind(D.fbl.dof_scatter_far_fb),
                  Clear(D.fbl.dof_scatter_far_fb, "0,0,0,0"),
                  Draw("dof_scatter", D.fbl.dof_scatter_far_fb,
                       {far, D.txl.dof_coc}),
                  Bind(D.fbl.dof_scatter_near_fb),
                  Clear(D.fbl.dof_scatter_near_fb, "0,0,0,0"),
                  Draw("dof_scatter", D.fbl.dof_scatter_near_fb,
                       {near, D.txl.dof_coc}),
                  Bind(D.effects.target_buffer),
                  Draw("dof_resolve", D.effects.target_buffer,
                       {D.effects.source_buffer, D.txl.dof_near_blur,
                        D.txl.dof_far_blur, depth})>>))
    ELSE D

\* lines 1212-1221: the downsample chain; L is [last, cmds]
RECURSIVE bloom_down_loop(_, _, _)
bloom_down_loop(D, i, L) ==
    IF i < D.effects.bloom_iteration_ct
    THEN bloom_down_loop(D, i + 1,
            [last |-> D.txl.bloom_downsample[i],
             cmds |-> L.cmds \o <<Bind(D.fbl.bloom_down_fb[i]),
                                  Draw("bloom_downsample", D.fbl.bloom_down_fb[i],
                                       {L.last})>>])
    ELSE L

\* lines 1223-1233: upsample and accumulate
RECURSIVE bloom_up_loop(_, _, _)
bloom_up_loop(D, i, L) ==
    IF i >= 0
    THEN bloom_up_loop(D, i - 1,
            [last |-> D.txl.bloom_upsample[i],
             cmds |-> L.cmds \o <<Bind(D.fbl.bloom_accum_fb[i]),
                                  Draw("bloom_upsample", D.fbl.bloom_accum_fb[i],
                                       {D.txl.bloom_downsample[i], L.last})>>])
    ELSE L

\* lines 1192-1243
draw_bloom(D) ==
    IF EFFECT_BLOOM \in D.effects.enabled_effects
    THEN LET head == <<Bind(D.fbl.bloom_blit_fb),
                       Draw("bloom_blit", D.fbl.bloom_blit_fb,
                            {D.effects.source_buffer}),
                       Bind(D.fbl.bloom_down_fb[0]),
                       Draw("bloom_downsample_first", D.fbl.bloom_down_fb[0],
                            {D.txl.bloom_blit})>>
             down == bloom_down_loop(D, 1,
                        [last |-> D.txl.bloom_downsample[0], cmds |-> head])
             up == bloom_up_loop(D, D.effects.bloom_iteration_ct - 2, down)
         IN  SWAP_BUFFERS(
                [D EXCEPT !.cmds = @ \o up.cmds
                                     \o <<Bind(D.effects.target_buffer),
                                          Draw("bloom_resolve", D.effects.target_buffer,
                                               {up.last, D.effects.source_buffer})>>])
    ELSE D

\* Variant of draw_display that tonemaps txl->color whatever the source is;
\* the displayed texture of C22 depends on line 1250 reading
\* effects->source_buffer.
draw_display_color(D) ==
    Emit([D EXCEPT !.displayed = D.txl.color],
         <<Attach(default_fb, depth), Bind(default_fb),
           Display(D.txl.color)>>)

\* lines 1245-1250: back to the default framebuffer, then tonemapping
draw_display(D) ==
    Emit([D EXCEPT !.displayed = D.effects.source_buffer],
         <<Attach(default_fb, depth), Bind(default_fb),
           Display(D.effects.source_buffer)>>)

\* Variant of draw_request_redraw that never asks for another frame; the
\* request of C6 depends on lines 1278-1285.
draw_request_redraw_never(valid_double_buffer, enabled_effects, image_render) ==
    FALSE

\* lines 1278-1285
draw_request_redraw(valid_double_buffer, enabled_effects, image_render) ==
    /\ ~valid_double_buffer
    /\ EFFECT_DOUBLE_BUFFER \in enabled_effects
    /\ image_render = FALSE

\* Variant of draw_record_persmat that leaves prev_persmat as it is; the
\* matrix read by the next frame in C25 depends on line 1288.
draw_record_persmat_never(prev_persmat, persmat) == prev_persmat

\* lines 1287-1288: prev_persmat after the call
draw_record_persmat(prev_persmat, persmat) == persmat

\* Variant of draw_update_double_buffer_status that writes the flag in the
\* viewport too; the flag kept by C23 depends on the test of line 1291.
draw_update_double_buffer_status_always(valid, image_render, history) ==
    history # NULL

\* lines 1290-1293: valid_double_buffer after the call, from its value
\* before and txl->color_double_buffer
draw_update_double_buffer_status(valid, image_render, history) ==
    IF image_render THEN history # NULL ELSE valid

\* Variant of draw_effects that runs the bloom block before the depth of
\* field block; the order of C8 depends on the order of the blocks.
draw_effects_bloom_first(D) ==
    { SWAP_DOUBLE_BUFFERS(d5) :
        d5 \in { draw_display(d4) :
        d4 \in { draw_dof(d3) :
        d3 \in { draw_bloom(d2) :
        d2 \in { draw_motion_blur(d1) :
        d1 \in { draw_begin(D) } } } } } }

\* lines 1129-1276: the state after the blocks, run in the order of the code
\* (the detach of the depth first), as a set of one element
draw_effects(D) ==
    { SWAP_DOUBLE_BUFFERS(d5) :
        d5 \in { draw_display(d4) :
        d4 \in { draw_bloom(d3) :
        d3 \in { draw_dof(d2) :
        d2 \in { draw_motion_blur(d1) :
        d1 \in { draw_begin(D) } } } } } }

EEVEE_draw_effects ==
    /\ pc = "draw_effects"
    /\ \E D \in draw_effects(DrawState) :
           /\ fbl' = D.fbl
           /\ txl' = D.txl
           /\ effects' = D.effects
           /\ cmds' = D.cmds
           /\ n_exchange' = D.n_exchange
           /\ displayed' = D.displayed
           /\ redraw_requested' =
                  draw_request_redraw(g_data.valid_double_buffer,
                                      D.effects.enabled_effects, is_image_render)
           /\ g_data' = [g_data EXCEPT
                            !.prev_persmat = draw_record_persmat(@, props.persmat),
                            !.valid_double_buffer =
                                draw_update_double_buffer_status(
                                    @, is_image_render, D.txl.color_double_buffer)]
    /\ entry_color' = txl.color
    /\ pc' = "engine_init"
    /\ UNCHANGED <<scene, frame_setup, is_image_render, volumetrics, freed, first_frame,
                   hit_content>>

---------------------------------------------------------------------------
(* EEVEE_effects_free, lines 1296-1327: the engine is unloaded between two *)
(* frames and draws no more                                                *)

EEVEE_effects_free ==
    /\ pc = "engine_init"
    /\ e_data' = [s \in ShaderNames |-> NULL]
    /\ pc' = "exit"
    /\ UNCHANGED <<scene, is_image_render, fbl, txl, effects, g_data, volumetrics,
                   cmds, freed, first_frame, redraw_requested, displayed,
                   entry_color, n_exchange, hit_content, compiled, failed, props,
                   psl>>

---------------------------------------------------------------------------

Next ==
    \/ EEVEE_engine_init
    \/ EEVEE_effects_init
    \/ EEVEE_effects_cache_init
    \/ EEVEE_effects_do_ssr
    \/ EEVEE_effects_do_volumetrics
    \/ EEVEE_draw_effects
    \/ EEVEE_effects_free

Spec == Init /\ [][Next]_vars

\* A viewport, or a render, of a scene without volumetrics that has the
\* reflections enabled in every frame, and that goes on drawing frames: a
\* frame's calls return, and the next frame follows.
ReflectionProps == {p \in Props : p.ssr_enable}

InitReflections == Init /\ animated = "post" /\ ~still.volumetric_enable

NextReflections ==
    \/ EEVEE_engine_init
    \/ effects_init_from(ReflectionProps)
    \/ EEVEE_effects_cache_init
    \/ EEVEE_effects_do_ssr
    \/ EEVEE_effects_do_volumetrics
    \/ EEVEE_draw_effects

\* A scene with monochromatic volumetrics whose post-process options go
\* between nothing and everything, with the reflections at half and at full
\* resolution, on a driver that may fail to compile one shader.
NothingRequested == { PostOptions(FALSE, FALSE, 1, FALSE, FALSE, 1) }

ShaderProps ==
    { Scene(post, still) :
        post \in NothingRequested \cup EverythingRequested \cup FullTracePost }

BrokenChoices ==
    { {} } \cup { {s} : s \in {"motion_blur_sh", "dof_scatter_sh", "bloom_blit_sh[1]",
                              "volumetric_upsample_sh", "downsample_sh",
                              ssr_sh[0], ssr_sh[SSR_RESOLVE],
                              ssr_sh[SSR_RESOLVE + SSR_FULL_TRACE]} }

InitShaders ==
    /\ InitViewport
    /\ animated = "post"
    /\ still = VolumetricOptions(TRUE, TRUE, FALSE)
    /\ broken \in BrokenChoices
    /\ arg = Idle
    /\ result = Idle

NextShaders ==
    \/ EEVEE_engine_init
    \/ effects_init_from(ShaderProps)
    \/ EEVEE_effects_cache_init
    \/ EEVEE_effects_do_ssr
    \/ EEVEE_effects_do_volumetrics
    \/ EEVEE_draw_effects
    \/ EEVEE_effects_free

SpecShaders == InitShaders /\ [][NextShaders]_vars

\* A scene without volumetrics whose post-process options go between nothing
\* and everything, the ray count of the reflections changing between frames.
RayProps ==
    { Scene(post, still) :
        post \in NothingRequested \cup EverythingRequested \cup RayPost }

InitRays ==
    /\ InitViewport
    /\ animated = "post"
    /\ still = VolumetricOptions(FALSE, FALSE, FALSE)
    /\ broken = {}
    /\ arg = Idle
    /\ result = Idle

NextRays ==
    \/ EEVEE_engine_init
    \/ effects_init_from(RayProps)
    \/ EEVEE_effects_cache_init
    \/ EEVEE_effects_do_ssr
    \/ EEVEE_effects_do_volumetrics
    \/ EEVEE_draw_effects
    \/ EEVEE_effects_free

SpecRays == InitRays /\ [][NextRays]_vars

\* The computations of EEVEE_effects_init on numbers, each one on inputs
\* taken from a set: the viewport sizes and the bloom radii for the bloom
\* iteration count.
ViewportSizes == {1, 2, 3, 4, 255, 256, 1080, 1920}

BloomInputs ==
    { [fn |-> "bloom", radius2 |-> r, width |-> w, height |-> h] :
        r \in 0 .. MaxRadius2, w \in ViewportSizes, h \in ViewportSizes }

\* lines 328-350
ComputeBloom ==
    /\ arg.fn = "bloom"
    /\ result = Idle
    /\ result' = [fn |-> "bloom",
                  bloom_iteration_ct |->
                      bloom_iteration_count(
                          bloom_maxIterInt(arg.radius2, MIN2(arg.width, arg.height)))]
    /\ UNCHANGED <<viewport, animated, still, broken, arg>>

Floats == (-MaxFloat) .. MaxFloat

LightClampInputs ==
    { [fn |-> "light_clamp", volumetric_light_clamp |-> v] : v \in Floats }

\* lines 533-538
ComputeLightClamp ==
    /\ arg.fn = "light_clamp"
    /\ result = Idle
    /\ result' = [fn |-> "light_clamp",
                  light_clamp |-> volumetric_light_clamp(arg.volumetric_light_clamp)]
    /\ UNCHANGED <<viewport, animated, still, broken, arg>>

\* the configured bounds are distances; the clip planes are view-space
\* depths, at or behind the camera plane
BoundsInputs ==
    { [fn |-> "bounds", persp |-> persp, volumetric_start |-> s,
       volumetric_end |-> e, clip_start |-> cs, clip_end |-> ce] :
        persp \in BOOLEAN, s \in 0 .. MaxDepth, e \in 0 .. MaxDepth,
        cs \in (-MaxDepth) .. 0, ce \in (-MaxDepth) .. 0 }

\* lines 515-528
ComputeBounds ==
    /\ arg.fn = "bounds"
    /\ result = Idle
    /\ \E b \in { volumetric_integration_bounds(arg.persp, arg.volumetric_start,
                        arg.volumetric_end, arg.clip_start, arg.clip_end) } :
           result' = [fn |-> "bounds", integration_start |-> b.integration_start,
                      integration_end |-> b.integration_end]
    /\ UNCHANGED <<viewport, animated, still, broken, arg>>

MinMaxInputs ==
    { [fn |-> "minmax", viewport_size |-> <<w, h>>] :
        w \in ViewportSizes, h \in ViewportSizes }

\* lines 489-499 and 965-1002
ComputeMinMax ==
    /\ arg.fn = "minmax"
    /\ result = Idle
    /\ \E m \in { EEVEE_create_minmax_buffer(arg.viewport_size) } :
           result' = [fn |-> "minmax", minzbuffer |-> m.minzbuffer,
                      maxzbuffer |-> m.maxzbuffer]
    /\ UNCHANGED <<viewport, animated, still, broken, arg>>

AliasInputs ==
    { [fn |-> "alias", viewport_size |-> <<w, h>>] :
        w \in ViewportSizes, h \in ViewportSizes }

\* lines 359-373 and 400-427 of a call with bloom and depth of field: the
\* size bloom gives txl->bloom_downsample[0], and the size of
\* fbl->dof_down_fb, which takes the texture as its near-field target
ComputeAliasSizes ==
    /\ arg.fn = "alias"
    /\ result = Idle
    /\ result' = [fn |-> "alias",
                  bloom_downsample |-> bloom_downsample_size(arg.viewport_size),
                  dof_down_fb |-> dof_buffer_size(arg.viewport_size)]
    /\ UNCHANGED <<viewport, animated, still, broken, arg>>

NumericInputs ==
    BloomInputs \cup LightClampInputs \cup BoundsInputs \cup MinMaxInputs
        \cup AliasInputs

InitNumeric ==
    /\ InitViewport
    /\ animated = "post"
    /\ still = VolumetricOptions(FALSE, FALSE, FALSE)
    /\ broken = {}
    /\ arg \in NumericInputs
    /\ result = Idle

NextNumeric ==
    \/ ComputeBloom
    \/ ComputeLightClamp
    \/ ComputeBounds
    \/ ComputeMinMax
    \/ ComputeAliasSizes

SpecNumeric == InitNumeric /\ [][NextNumeric]_vars

\* A scene without volumetrics, with the reflections on or off, whose view
\* moves or rests between frames.
MovingPost ==
    { [s EXCEPT !.persmat = m] :
        s \in NothingRequested
                 \cup { PostOptions(mb, FALSE, 1, FALSE, TRUE, 1) : mb \in BOOLEAN },
        m \in Matrices }

MovingProps == { Scene(post, still) : post \in MovingPost }

InitMoving ==
    /\ InitViewport
    /\ animated = "post"
    /\ still = VolumetricOptions(FALSE, FALSE, FALSE)
    /\ broken = {}
    /\ arg = Idle
    /\ result = Idle

NextMoving ==
    \/ EEVEE_engine_init
    \/ effects_init_from(MovingProps)
    \/ EEVEE_effects_cache_init
    \/ EEVEE_effects_do_ssr
    \/ EEVEE_effects_do_volumetrics
    \/ EEVEE_draw_effects
    \/ EEVEE_effects_free

SpecMoving == InitMoving /\ [][NextMoving]_vars

SpecReflections ==
    InitReflections /\ [][NextReflections]_vars /\ WF_vars(NextReflections)

---------------------------------------------------------------------------
(* Properties *)

\* EEVEE_draw_effects has returned: the frame's commands, what it displayed
\* and the lists as it left them are in the state
FrameDrawn == pc = "engine_init" /\ displayed # NULL

\* the post-process bits of the frame
PostBits == effects.enabled_effects \cap
                {EFFECT_MOTION_BLUR, EFFECT_DOF, EFFECT_BLOOM}

\* C1: a call of EEVEE_draw_effects with EFFECT_DOUBLE_BUFFER set exchanges
\* fbl->main with fbl->double_buffer and txl->color with
\* txl->color_double_buffer exactly once, whichever of motion blur, DoF and
\* bloom are enabled: the texture that was txl->color on entry is the history
\* on return and the lists stay paired.
C1_ExchangedOnce ==
    (FrameDrawn /\ EFFECT_DOUBLE_BUFFER \in effects.enabled_effects) =>
        /\ n_exchange = 1
        /\ txl.color_double_buffer = entry_color
        /\ txl.color # entry_color
        /\ fbl.double_buffer.tex = <<entry_color>>
        /\ fbl.main.tex = <<txl.color>>

\* C1 with three post-process effects: three SWAP_BUFFERS and the final
\* SWAP_DOUBLE_BUFFERS
C1_Witness ==
    /\ FrameDrawn
    /\ EFFECT_DOUBLE_BUFFER \in effects.enabled_effects
    /\ Cardinality(PostBits) = 3
    /\ n_exchange = 1

\* C2: with no effect enabled EEVEE_draw_effects hands to
\* DRW_transform_to_display the texture that was txl->color on entry; it draws
\* no pass and exchanges nothing.
C2_PassThrough ==
    (FrameDrawn /\ effects.enabled_effects = {}) =>
        /\ displayed = entry_color
        /\ n_exchange = 0
        /\ \A i \in 1 .. Len(cmds) : cmds[i].op # "draw"

\* C2 after an earlier frame with reflections left txl->color on the second
\* color texture
C2_Witness ==
    /\ FrameDrawn
    /\ effects.enabled_effects = {}
    /\ entry_color = "colorB"
    /\ displayed = "colorB"

\* The effect's own framebuffers and textures in the lists f, t are all NULL.
\* Motion blur owns none: it draws into the shared ping-pong buffer.
OwnedAreNull(e, f, t) ==
    CASE e = EFFECT_BLOOM ->
            /\ f.bloom_blit_fb = NULL_FB /\ t.bloom_blit = NULL
            /\ \A i \in BloomIdx :
                  /\ f.bloom_down_fb[i] = NULL_FB /\ t.bloom_downsample[i] = NULL
                  /\ f.bloom_accum_fb[i] = NULL_FB /\ t.bloom_upsample[i] = NULL
      [] e = EFFECT_DOF ->
            /\ f.dof_down_fb = NULL_FB /\ f.dof_scatter_far_fb = NULL_FB
            /\ f.dof_scatter_near_fb = NULL_FB
            /\ t.dof_down_near = NULL /\ t.dof_down_far = NULL /\ t.dof_coc = NULL
            /\ t.dof_near_blur = NULL /\ t.dof_far_blur = NULL
      [] e = EFFECT_VOLUMETRIC -> f.volumetric_fb = NULL_FB
      [] e = EFFECT_SSR ->
            /\ f.screen_tracing_fb = NULL_FB
            /\ t.ssr_normal_input = NULL /\ t.ssr_specrough_input = NULL
      [] e = EFFECT_DOUBLE_BUFFER ->
            f.double_buffer = NULL_FB /\ t.color_double_buffer = NULL
      [] OTHER -> TRUE

\* C3: an effect enabled in one frame and not enabled in the next has all
\* its own framebuffers and textures NULL when EEVEE_effects_init of that
\* next frame returns.  (The code releases only the resources of the
\* reflections and of the double buffer.)
C3_ReleasedWhenDisabled ==
    [][pc = "effects_init" =>
          \A e \in AllEffects :
              (e \in effects.enabled_effects /\ e \notin effects'.enabled_effects)
                  => OwnedAreNull(e, fbl', txl')]_vars

\* the targets of the framebuffer of command k exist: each one either a
\* texture the framebuffer was created with or one attached for the frame
TargetsExist(k) ==
    \A i \in 1 .. Len(cmds[k].fb.tex) :
        \/ cmds[k].fb.tex[i] # NULL
        \/ \E j \in 1 .. (k - 1) :
              /\ cmds[j].op = "attach"
              /\ cmds[j].fb = cmds[k].fb
              /\ NULL \notin cmds[j].reads

\* command k works on allocated resources
OnAllocated(k) ==
    /\ cmds[k].op \in {"bind", "draw", "clear", "attach", "downsample"}
          => cmds[k].fb # NULL_FB
    /\ cmds[k].op \in {"attach", "downsample"} => NULL \notin cmds[k].reads
    /\ cmds[k].op \in {"draw", "clear"} => TargetsExist(k)

\* C4: no command of EEVEE_effects_do_ssr, EEVEE_effects_do_volumetrics or
\* EEVEE_draw_effects binds a NULL framebuffer or writes a NULL texture, in
\* the first frame an effect's bit is set as in every later one: the frame's
\* EEVEE_effects_init has allocated them, the ping-pong buffer included.
C4_AllocatedBeforeUse == \A k \in 1 .. Len(cmds) : OnAllocated(k)

\* C4 in the first frame of a viewport, with every bit set for the first time
\* and a bloom chain of more than one step
C4_Witness ==
    /\ FrameDrawn
    /\ first_frame
    /\ effects.enabled_effects = AllEffects
    /\ effects.bloom_iteration_ct > 1
    /\ \E k \in 1 .. Len(cmds) : cmds[k].op = "draw" /\ cmds[k].fb = fbl.effect_fb

\* the positions in cmds of the raytrace pass, of the clear to the sentinel
\* and of the resolve pass
RaytraceAt == {k \in 1 .. Len(cmds) :
                  cmds[k].op = "draw" /\ cmds[k].pass = "ssr_raytrace"}
SentinelAt == {k \in 1 .. Len(cmds) :
                  /\ cmds[k].op = "clear" /\ cmds[k].pass = "0,0,-1,0.001"
                  /\ cmds[k].fb = fbl.screen_tracing_fb}
ResolveAt == {k \in 1 .. Len(cmds) :
                  cmds[k].op = "draw" /\ cmds[k].pass = "ssr_resolve"}

\* the hit buffers of the frame
HitBuffers == {g_data.ssr_hit_output[i] : i \in 0 .. (effects.ssr_ray_count - 1)}

\* C5: when EEVEE_effects_do_ssr has run with EFFECT_SSR set, the hit
\* buffers hold the sentinel (0, 0, -1, 0.001) of a clear exactly when
\* valid_double_buffer was false at the raytrace step, and hold the output of
\* the raytrace pass otherwise; the resolve pass is drawn after either one
\* and reads the hit buffers.
C5_SentinelIffInvalid ==
    (pc = "do_volumetrics" /\ EFFECT_SSR \in effects.enabled_effects) =>
        /\ (hit_content = "0,0,-1,0.001") <=> ~g_data.valid_double_buffer
        /\ (hit_content = "raytrace") <=> g_data.valid_double_buffer
        /\ (SentinelAt # {}) <=> ~g_data.valid_double_buffer
        /\ (RaytraceAt # {}) <=> g_data.valid_double_buffer
        /\ Cardinality(ResolveAt) = 1
        /\ \A r \in ResolveAt :
              /\ \A k \in RaytraceAt \cup SentinelAt : k < r
              /\ HitBuffers \subseteq cmds[r].reads
              /\ NULL \notin HitBuffers

\* C5 with a valid history: the raytrace pass, then the resolve pass
C5_Witness ==
    /\ pc = "do_volumetrics"
    /\ EFFECT_SSR \in effects.enabled_effects
    /\ g_data.valid_double_buffer
    /\ hit_content = "raytrace"
    /\ ResolveAt # {}

\* C6 as stated: whenever valid_double_buffer is false in a frame with
\* EFFECT_DOUBLE_BUFFER set, EEVEE_draw_effects requests a redraw.
C6_RedrawWhenInvalid ==
    [][(/\ pc = "draw_effects"
        /\ ~g_data.valid_double_buffer
        /\ EFFECT_DOUBLE_BUFFER \in effects.enabled_effects)
          => redraw_requested']_vars

\* C6, amended: EEVEE_draw_effects requests a redraw exactly when
\* valid_double_buffer is false, EFFECT_DOUBLE_BUFFER is set and the draw is
\* not an image render.
C6_RedrawWhenInvalidInViewport ==
    [][pc = "draw_effects" =>
          (redraw_requested' <=>
              (/\ ~g_data.valid_double_buffer
               /\ EFFECT_DOUBLE_BUFFER \in effects.enabled_effects
               /\ ~is_image_render))]_vars

\* C6 in the viewport: a frame with reflections and no history yet has asked
\* for another frame
C6_Witness ==
    /\ FrameDrawn
    /\ ~is_image_render
    /\ EFFECT_DOUBLE_BUFFER \in effects.enabled_effects
    /\ ~g_data.valid_double_buffer
    /\ redraw_requested

IsStep(c) == c.op \in {"detach", "draw", "attach", "display"}

Step(c) ==
    <<c.op, c.pass,
      IF c.op = "attach" \/ c.pass = "dof_scatter" THEN c.fb.id ELSE "",
      IF c.op \in {"detach", "attach"} THEN c.reads ELSE {}>>

StepsOf(s) ==
    LET steps == SelectSeq(s, IsStep)
    IN  [i \in 1 .. Len(steps) |-> Step(steps[i])]

Pass(name) == <<"draw", name, "", {}>>

FixedOrder(enabled, ct) ==
    <<  <<"detach", "", "", {depth}>>  >>
    \o (IF EFFECT_MOTION_BLUR \in enabled
        THEN <<Pass("motion_blur")>> ELSE <<>>)
    \o (IF EFFECT_DOF \in enabled
        THEN <<Pass("dof_down"),
               <<"draw", "dof_scatter", "dof_scatter_far_fb", {}>>,
               <<"draw", "dof_scatter", "dof_scatter_near_fb", {}>>,
               Pass("dof_resolve")>>
        ELSE <<>>)
    \o (IF EFFECT_BLOOM \in enabled
        THEN <<Pass("bloom_blit"), Pass("bloom_downsample_first")>>
             \o [i \in 1 .. ct - 1 |-> Pass("bloom_downsample")]
             \o [i \in 1 .. ct - 1 |-> Pass("bloom_upsample")]
             \o <<Pass("bloom_resolve")>>
        ELSE <<>>)
    \o <<  <<"attach", "", "default_fb", {depth}>>,
           <<"display", "", "", {}>>  >>

\* C8: the steps of a call of EEVEE_draw_effects are, in this order, the
\* detach of the depth, the motion blur pass, the DoF downsample, scatter far,
\* scatter near and resolve, the bloom blit, downsample chain, upsample chain
\* and resolve, the attach of the depth to the default framebuffer and the
\* tonemap, the passes of the effects that are not enabled left out; the
\* tonemap is the last command.
C8_FixedOrder ==
    [][pc = "draw_effects" =>
          LET issued == SubSeq(cmds', Len(cmds) + 1, Len(cmds'))
          IN  /\ StepsOf(issued) =
                     FixedOrder(effects.enabled_effects, effects.bloom_iteration_ct)
              /\ issued[Len(issued)].op = "display"]_vars

\* C8 with the three effects and a bloom chain of more than one level
C8_Witness ==
    /\ FrameDrawn
    /\ Cardinality(PostBits) = 3
    /\ effects.bloom_iteration_ct > 1
    /\ cmds[Len(cmds)].op = "display"

\* bloom's bit in a value of enabled_effects
BloomIn(e) == EFFECT_BLOOM \in e.enabled_effects

\* C9: a call of EEVEE_effects_init that enables DoF while bloom's bit
\* differs from the one the previous call recorded frees the fbl->dof_down_fb
\* it finds and builds it again; its first target is txl->bloom_downsample[0]
\* with bloom and txl->dof_down_near without.
C9_DofDownRebuilt ==
    [][(/\ pc = "effects_init"
        /\ EFFECT_DOF \in effects'.enabled_effects
        /\ BloomIn(effects) # BloomIn(effects')) =>
          LET near == IF BloomIn(effects')
                      THEN txl'.bloom_downsample[0]
                      ELSE txl'.dof_down_near
          IN  /\ fbl.dof_down_fb # NULL_FB => "dof_down_fb" \in freed'
              /\ fbl'.dof_down_fb # NULL_FB
              /\ near # NULL
              /\ fbl'.dof_down_fb.tex[1] = near
              /\ txl'.bloom_downsample[0] # txl'.dof_down_near]_vars

\* C9 when bloom is disabled with DoF kept: the framebuffer built on
\* txl->bloom_downsample[0] was freed and the new one is on txl->dof_down_near
C9_Witness ==
    /\ pc = "cache_init"
    /\ "dof_down_fb" \in freed
    /\ EFFECT_DOF \in effects.enabled_effects
    /\ ~BloomIn(effects)
    /\ txl.bloom_downsample[0] # NULL
    /\ fbl.dof_down_fb.tex[1] = txl.dof_down_near

\* C10: after a call of EEVEE_effects_init that enables the volumetrics,
\* fbl->volumetric_fb has one color target when the colored transmittance is
\* off and two when it is on, and the framebuffer the call found was freed
\* when the option differs from the one stored by the last call that enabled
\* the volumetrics, whatever frames came before.
C10_VolumetricTargets ==
    [][(pc = "effects_init" /\ EFFECT_VOLUMETRIC \in effects'.enabled_effects) =>
          LET colored == volumetrics'.use_colored_transmit
          IN  /\ animated = "post" =>
                     colored = still.volumetric_colored_transmittance
              /\ fbl'.volumetric_fb # NULL_FB
              /\ fbl'.volumetric_fb.ntex = IF colored THEN 2 ELSE 1
              /\ (/\ volumetrics.use_colored_transmit # colored
                  /\ fbl.volumetric_fb # NULL_FB)
                     => "volumetric_fb" \in freed'
              /\ (colored => g_data'.volumetric_transmit # NULL)
              /\ g_data'.volumetric # NULL]_vars

\* C10 from colored to monochrome: the framebuffer with two targets was
\* freed and the new one has one
C10_Witness ==
    /\ pc = "cache_init"
    /\ "volumetric_fb" \in freed
    /\ EFFECT_VOLUMETRIC \in effects.enabled_effects
    /\ ~volumetrics.use_colored_transmit
    /\ fbl.volumetric_fb.ntex = 1

\* the passes of an effect
PassesOf(e) ==
    CASE e = EFFECT_MOTION_BLUR -> {"motion_blur"}
      [] e = EFFECT_DOF -> {"dof_down", "dof_scatter", "dof_resolve"}
      [] e = EFFECT_BLOOM -> {"bloom_blit", "bloom_downsample_first",
                              "bloom_downsample", "bloom_upsample", "bloom_resolve"}
      [] e = EFFECT_VOLUMETRIC -> {"volumetric_integrate_ps", "volumetric_resolve_ps",
                                   "volumetric_resolve_transmit_ps"}
      [] e = EFFECT_SSR -> {"ssr_raytrace", "ssr_resolve"}
      [] OTHER -> {}

DrawnPasses == {cmds[k].pass : k \in {i \in 1 .. Len(cmds) : cmds[i].op = "draw"}}

\* C11: once EEVEE_effects_cache_init has returned, an effect one of whose
\* shaders, or whose material, was not created in this frame has its bit
\* clear, and none of its passes is drawn in the frame.  (The code clears the
\* bit for the volumetric material only.)
C11_FailureClearsBit ==
    pc \in {"do_ssr", "do_volumetrics", "draw_effects", "engine_init"} =>
        \A e \in failed :
            /\ e \notin effects.enabled_effects
            /\ PassesOf(e) \cap DrawnPasses = {}

\* the framebuffers and textures of the depth of field in lists f and t
DofBuffers(f, t) ==
    <<f.dof_down_fb, f.dof_scatter_far_fb, f.dof_scatter_near_fb,
      t.dof_down_near, t.dof_down_far, t.dof_coc, t.dof_near_blur, t.dof_far_blur>>

\* C12: a call of EEVEE_effects_init sets EFFECT_MOTION_BLUR only in a camera
\* view whose recomputed matrix matches the viewport's, and EFFECT_DOF only
\* in a camera view; with the option on and the precondition failing the
\* bit is clear and the call creates no buffer for the effect: the DoF
\* buffers are the ones it found, and so is the ping-pong buffer when no
\* other post-process effect is enabled.
C12_PreconditionsGate ==
    [][pc = "effects_init" =>
          LET bits == effects'.enabled_effects
              mb_ok == props'.camob /\ props'.persmat_match
              dof_ok == props'.camob
          IN  /\ EFFECT_MOTION_BLUR \in bits => mb_ok
              /\ EFFECT_DOF \in bits => dof_ok
              /\ (props'.motion_blur_enable /\ ~mb_ok) =>
                     EFFECT_MOTION_BLUR \notin bits
              /\ (props'.dof_enable /\ ~dof_ok) =>
                     /\ EFFECT_DOF \notin bits
                     /\ DofBuffers(fbl', txl') = DofBuffers(fbl, txl)
              /\ bits \cap {EFFECT_MOTION_BLUR, EFFECT_DOF, EFFECT_BLOOM} = {} =>
                     /\ fbl'.effect_fb = fbl.effect_fb
                     /\ txl'.color_post = txl.color_post]_vars

\* C12 when the view leaves the camera: both options on, both bits clear,
\* the DoF buffers of the earlier frames untouched
C12_Witness ==
    /\ pc = "cache_init"
    /\ props.motion_blur_enable /\ props.dof_enable /\ ~props.camob
    /\ effects.enabled_effects \cap {EFFECT_MOTION_BLUR, EFFECT_DOF} = {}
    /\ fbl.dof_down_fb # NULL_FB

\* the count EEVEE_effects_init computes for a radius and a viewport size
BloomCount(radius2, width, height) ==
    bloom_iteration_count(bloom_maxIterInt(radius2, MIN2(width, height)))

\* C13: the bloom iteration count lies in 1 .. MAX_BLOOM_STEP, and a larger
\* radius, or a larger smallest side of the viewport, gives a count that is
\* not smaller.
C13_BloomCountMonotone ==
    result.fn = "bloom" =>
        /\ result.bloom_iteration_ct \in 1 .. MAX_BLOOM_STEP
        /\ \A r \in arg.radius2 .. MaxRadius2 :
              BloomCount(r, arg.width, arg.height) >= result.bloom_iteration_ct
        /\ \A w \in ViewportSizes, h \in ViewportSizes :
              MIN2(w, h) >= MIN2(arg.width, arg.height) =>
                  BloomCount(arg.radius2, w, h) >= result.bloom_iteration_ct

\* C13 on the scenario of the specification: radius 6 on 1920 x 1080 gives
\* 8 iterations
C13_Witness ==
    /\ result.fn = "bloom"
    /\ arg.radius2 = 12 /\ arg.width = 1920 /\ arg.height = 1080
    /\ result.bloom_iteration_ct = 8

\* the hit buffers EEVEE_effects_do_ssr attaches to the tracing framebuffer,
\* in order, among the commands s
TracingAttachments(s) ==
    LET IsHitAttach(c) == c.op = "attach" /\ c.fb = fbl.screen_tracing_fb
        att == SelectSeq(s, IsHitAttach)
    IN  [i \in 1 .. Len(att) |-> att[i].reads]

\* C14: with the reflections enabled, EEVEE_effects_init leaves in
\* ssr_ray_count the requested count brought into 1 .. 4, gets that many hit
\* buffers for the tracing framebuffer and touches no other; and
\* EEVEE_effects_do_ssr attaches exactly these, in order.
C14_RayCountClamped ==
    [][/\ (pc = "effects_init" /\ EFFECT_SSR \in effects'.enabled_effects) =>
            LET req == props'.ssr_ray_count
                n == effects'.ssr_ray_count
            IN  /\ n = IF req < 1 THEN 1 ELSE IF req > 4 THEN 4 ELSE req
                /\ \A i \in RayIdx :
                      IF i < n
                      THEN g_data'.ssr_hit_output[i] # NULL
                      ELSE g_data'.ssr_hit_output[i] = g_data.ssr_hit_output[i]
                /\ fbl.screen_tracing_fb = NULL_FB =>
                      fbl'.screen_tracing_fb.ntex = n
       /\ (pc = "do_ssr" /\ EFFECT_SSR \in effects.enabled_effects) =>
            TracingAttachments(SubSeq(cmds', Len(cmds) + 1, Len(cmds'))) =
                [i \in 1 .. effects.ssr_ray_count |->
                    {g_data.ssr_hit_output[i - 1]}]]_vars

\* C14 on the scenario of the specification: 6 rays requested, 4 hit
\* buffers attached
C14_Witness ==
    /\ pc = "do_volumetrics"
    /\ EFFECT_SSR \in effects.enabled_effects
    /\ props.ssr_ray_count = 6
    /\ effects.ssr_ray_count = 4
    /\ Len(TracingAttachments(cmds)) = 4
    /\ \A i \in RayIdx : g_data.ssr_hit_output[i] # NULL

\* C15: a configured volumetric_light_clamp of 0 gives the largest float as
\* the light clamp, which clamps no float; any other value is kept.
C15_ZeroClampIsNoClamp ==
    result.fn = "light_clamp" =>
        IF arg.volumetric_light_clamp = 0
        THEN /\ result.light_clamp = FLT_MAX
             /\ \A x \in Floats : MIN2(x, result.light_clamp) = x
        ELSE result.light_clamp = arg.volumetric_light_clamp

\* C15 with the clamp at 0
C15_Witness ==
    /\ result.fn = "light_clamp"
    /\ arg.volumetric_light_clamp = 0
    /\ result.light_clamp = FLT_MAX

\* C16: in a perspective view the integration bounds are the negated
\* configured start and end; in the other views the start is the negated
\* configured start kept behind the near clip plane, and the end the negated
\* configured end kept before the far clip plane.  (The code computes the
\* start of the other views from the configured end.)
C16_IntegrationBounds ==
    result.fn = "bounds" =>
        IF arg.persp
        THEN /\ result.integration_start = -arg.volumetric_start
             /\ result.integration_end = -arg.volumetric_end
        ELSE /\ result.integration_start =
                    MIN2(-arg.volumetric_start, arg.clip_start)
             /\ result.integration_end = MAX2(-arg.volumetric_end, arg.clip_end)

\* the levels of a pyramid below its top level
GeneratedLevels(pyramid) == Len(pyramid) - 1

Coarsest(pyramid) == pyramid[Len(pyramid)]

\* C17: for every viewport size with both sides >= 1, the min and the max
\* pyramid have at most 8 generated levels each, and both sides of the
\* coarsest level of each are >= 1.  (A side of 1 gives a top level with a
\* side of 0.)
C17_PyramidLevels ==
    result.fn = "minmax" =>
        \A pyramid \in {result.minzbuffer, result.maxzbuffer} :
            /\ GeneratedLevels(pyramid) <= 8
            /\ Coarsest(pyramid)[1] >= 1
            /\ Coarsest(pyramid)[2] >= 1

\* the step is the one of EEVEE_effects_free
IsFree == pc = "engine_init" /\ pc' = "exit"

\* C18: between the start of the engine and EEVEE_effects_free every shader
\* variant is compiled at most once, a compilation that returned no shader
\* counting as one, and a compiled variant is neither freed nor compiled
\* again before EEVEE_effects_free.  (A variant whose compilation returned
\* NULL is compiled again by the next call, and the fixed shaders are all
\* compiled again while motion_blur_sh is NULL.)
C18_CompiledOnce ==
    [][ \A s \in ShaderNames :
           /\ compiled'[s] <= 1
           /\ (e_data[s] # NULL /\ ~IsFree) =>
                  (e_data'[s] = e_data[s] /\ compiled'[s] = compiled[s]) ]_vars

\* the state in which the block of effect e of EEVEE_draw_effects begins,
\* and the state in which it ends
BlockEntry(e) ==
    CASE e = EFFECT_MOTION_BLUR -> draw_begin(DrawState)
      [] e = EFFECT_DOF -> draw_motion_blur(draw_begin(DrawState))
      [] e = EFFECT_BLOOM -> draw_dof(draw_motion_blur(draw_begin(DrawState)))

BlockExit(e) ==
    CASE e = EFFECT_MOTION_BLUR -> draw_motion_blur(BlockEntry(e))
      [] e = EFFECT_DOF -> draw_dof(BlockEntry(e))
      [] e = EFFECT_BLOOM -> draw_bloom(BlockEntry(e))

PassesIn(c) == {c[k].pass : k \in {i \in 1 .. Len(c) : c[i].op = "draw"}}

\* C19: with the bit of an effect clear, the effect's block issues no
\* command (no bind, draw, clear, attach or detach) and changes neither the
\* lists nor effects->source_buffer and effects->target_buffer: the calls
\* EEVEE_effects_do_ssr and EEVEE_effects_do_volumetrics leave everything as
\* it is, and a block of EEVEE_draw_effects ends in the state it began in,
\* the call drawing none of the effect's passes.
C19_AbsentBlockIsNoOp ==
    [][ /\ (pc = "do_ssr" /\ EFFECT_SSR \notin effects.enabled_effects) =>
               UNCHANGED <<cmds, fbl, txl, effects, g_data, hit_content>>
        /\ (pc = "do_volumetrics"
                /\ EFFECT_VOLUMETRIC \notin effects.enabled_effects) =>
               UNCHANGED <<cmds, fbl, txl, effects, g_data, hit_content>>
        /\ pc = "draw_effects" =>
               \A e \in {EFFECT_MOTION_BLUR, EFFECT_DOF, EFFECT_BLOOM} :
                   e \notin effects.enabled_effects =>
                       /\ BlockExit(e) = BlockEntry(e)
                       /\ PassesOf(e) \cap PassesIn(cmds') = {} ]_vars

\* C19 in a frame drawn with the depth of field as the only effect: the
\* blocks of the reflections, the volumetrics, the motion blur and the bloom
\* were absent
C19_Witness ==
    /\ pc = "engine_init"
    /\ displayed # NULL
    /\ effects.enabled_effects
           \cap {EFFECT_MOTION_BLUR, EFFECT_DOF, EFFECT_BLOOM, EFFECT_SSR,
                 EFFECT_VOLUMETRIC} = {EFFECT_DOF}
    /\ DrawnPasses = PassesOf(EFFECT_DOF)

PostEffects == {EFFECT_MOTION_BLUR, EFFECT_DOF, EFFECT_BLOOM}

\* the blocks of the call of EEVEE_draw_effects about to run in which the
\* roles of source and target are exchanged
Flips ==
    { e \in PostEffects :
        \/ BlockExit(e).effects.source_buffer # BlockEntry(e).effects.source_buffer
        \/ BlockExit(e).effects.target_buffer # BlockEntry(e).effects.target_buffer }

\* C20: SWAP_BUFFERS runs at the end of each of the three blocks of
\* EEVEE_draw_effects whether or not the effect is enabled: every frame has
\* three exchanges of source and target.  (The code exchanges them inside the
\* test of each effect.)
C20_FlipsUnconditional ==
    pc = "draw_effects" => Cardinality(Flips) = 3

\* C20, amended: SWAP_BUFFERS runs at the end of the blocks of the enabled
\* effects only; a call of EEVEE_draw_effects exchanges source and target
\* once for each of motion blur, DoF and bloom that is enabled, and the
\* source it ends with is txl->color_post exactly when their number is odd.
C20_FlipsFollowEnabled ==
    [][ pc = "draw_effects" =>
           /\ Flips = PostBits
           /\ (effects'.source_buffer = txl'.color_post)
                  <=> (Cardinality(PostBits) % 2 = 1) ]_vars

\* C20 in a frame drawn with two of the three effects: the source is back
\* on txl->color
C20_Witness ==
    /\ FrameDrawn
    /\ Cardinality(PostBits) = 2
    /\ effects.source_buffer = txl.color
    /\ displayed = txl.color

\* C21: EEVEE_effects_cache_init builds passes only for the effects enabled
\* in the frame (and only when an effect becomes enabled or a resource of
\* its was recreated): a call that ends with the bit of an effect clear has
\* created none of the effect's passes.  (The motion blur, bloom and depth of
\* field passes are created by every call.)
C21_PassesOfEnabledOnly ==
    pc \in {"do_ssr", "do_volumetrics", "draw_effects"} =>
        \A e \in AllEffects :
            e \notin effects.enabled_effects => PassesOf(e) \cap psl = {}

\* the last pass of each post-process effect, and the draws of these passes
\* in the commands of the frame
FinalPasses == {"motion_blur", "dof_resolve", "bloom_resolve"}

IsFinalDraw(c) == c.op = "draw" /\ c.pass \in FinalPasses

FinalDraws == SelectSeq(cmds, IsFinalDraw)

\* the color textures of the viewport
ColorTextures == {"colorA", "colorB", "color_post"}

\* the color texture a draw writes
Written(c) == c.fb.tex[1]

\* C22: in a drawn frame, whichever of motion blur, DoF and bloom are
\* enabled and with or without the double buffer, the final pass of each
\* enabled effect reads as its color input the texture the final pass of the
\* enabled effect before it wrote (the txl->color of entry for the first),
\* and the texture given to DRW_transform_to_display is the one the last
\* enabled effect wrote.
C22_ChainOfInputs ==
    FrameDrawn =>
        /\ Len(FinalDraws) = Cardinality(PostBits)
        /\ \A i \in 1 .. Len(FinalDraws) :
               FinalDraws[i].reads \cap ColorTextures =
                   { IF i = 1 THEN entry_color ELSE Written(FinalDraws[i - 1]) }
        /\ FinalDraws # <<>> =>
               displayed = Written(FinalDraws[Len(FinalDraws)])

\* C22 with the three effects and the double buffer: the motion blur writes
\* color_post from the color of entry, the depth of field writes the former
\* history, the bloom writes color_post, which is displayed
C22_Witness ==
    /\ FrameDrawn
    /\ EFFECT_DOUBLE_BUFFER \in effects.enabled_effects
    /\ Len(FinalDraws) = 3
    /\ Written(FinalDraws[1]) = "color_post"
    /\ Written(FinalDraws[2]) \in {"colorA", "colorB"} \ {entry_color}
    /\ displayed = "color_post"

\* C23: EEVEE_draw_effects writes valid_double_buffer only in an image
\* render, where the flag becomes (txl->color_double_buffer != NULL); in the
\* viewport the flag is after the call what it was before.
C23_ValidFlagInRenderOnly ==
    [][ pc = "draw_effects" =>
           g_data'.valid_double_buffer =
               IF is_image_render
               THEN txl'.color_double_buffer # NULL
               ELSE g_data.valid_double_buffer ]_vars

\* C23 in the first frame of an image render with reflections: the hit
\* buffers were cleared because the history was not valid, and the call has
\* made it valid
C23_Witness ==
    /\ FrameDrawn
    /\ is_image_render
    /\ SentinelAt # {}
    /\ g_data.valid_double_buffer

\* C24: when EEVEE_effects_init has returned, EFFECT_SSR set implies
\* EFFECT_DOUBLE_BUFFER set with fbl->double_buffer and
\* txl->color_double_buffer allocated, and EFFECT_DOUBLE_BUFFER clear implies
\* that both are NULL.
C24_HistoryFollowsBit ==
    pc = "cache_init" =>
        /\ EFFECT_SSR \in effects.enabled_effects =>
               /\ EFFECT_DOUBLE_BUFFER \in effects.enabled_effects
               /\ fbl.double_buffer # NULL_FB
               /\ txl.color_double_buffer # NULL
        /\ EFFECT_DOUBLE_BUFFER \notin effects.enabled_effects =>
               /\ fbl.double_buffer = NULL_FB
               /\ txl.color_double_buffer = NULL

\* C24 in the frame that turns the reflections off: the call has released
\* the history
C24_Witness ==
    /\ pc = "cache_init"
    /\ EFFECT_DOUBLE_BUFFER \notin effects.enabled_effects
    /\ {"color_double_buffer", "double_buffer"} \subseteq freed
    /\ txl.color_double_buffer = NULL

\* the matrices the resolve pass of the frame read
PastViewProjectionMatrix ==
    UNION { cmds[r].reads \cap (Matrices \cup {ZeroMatrix}) : r \in ResolveAt }

\* C25: every call of EEVEE_draw_effects ends with the view-projection
\* matrix of its frame in prev_persmat, no other call writes prev_persmat,
\* and the resolve pass of EEVEE_effects_do_ssr reads prev_persmat: the
\* PastViewProjectionMatrix of frame N+1 is the view-projection matrix of
\* frame N.
C25_PastMatrixIsLastFrames ==
    [][ /\ pc = "draw_effects" => g_data'.prev_persmat = props.persmat
        /\ pc # "draw_effects" => g_data'.prev_persmat = g_data.prev_persmat
        /\ (pc = "do_ssr" /\ EFFECT_SSR \in effects.enabled_effects) =>
               PastViewProjectionMatrix' = {g_data.prev_persmat} ]_vars

\* C25 in a frame after the first whose view has moved: the resolve pass
\* has read the matrix of the frame before, which is not the frame's own
C25_Witness ==
    /\ pc = "do_volumetrics"
    /\ ~first_frame
    /\ PastViewProjectionMatrix = {g_data.prev_persmat}
    /\ g_data.prev_persmat \in Matrices \ {props.persmat}

\* the draws of the frame with pass p into the framebuffer named id
DrawsOf(p, id) ==
    {k \in 1 .. Len(cmds) :
        cmds[k].op = "draw" /\ cmds[k].pass = p /\ cmds[k].fb.id = id}

\* the texture the scatter-near pass of the frame is to read (lines 1173-1180)
NearSource ==
    IF EFFECT_BLOOM \in effects.enabled_effects
    THEN txl.bloom_downsample[0]
    ELSE txl.dof_down_near

\* C26: in every drawn frame in which the depth of field ran, whatever the
\* frames before it enabled, the first color target of fbl->dof_down_fb, which
\* the downsample pass writes, is the texture the scatter-near pass reads:
\* txl->bloom_downsample[0] with bloom enabled in the frame, txl->dof_down_near
\* without.  (The framebuffer is rebuilt only when bloom's bit differs from
\* the one of the frame before, also when that frame had no depth of field.)
C26_NearTargetIsNearSource ==
    (FrameDrawn /\ EFFECT_DOF \in effects.enabled_effects) =>
        /\ DrawsOf("dof_down", "dof_down_fb") # {}
        /\ \A j \in DrawsOf("dof_down", "dof_down_fb") :
               Written(cmds[j]) = NearSource
        /\ \A k \in DrawsOf("dof_scatter", "dof_scatter_near_fb") :
               NearSource \in cmds[k].reads

\* source and target are one of the two pairs of SWAP_BUFFERS, read in the
\* lists of D
PairOK(D) ==
    <<D.effects.source_buffer, D.effects.target_buffer>> \in
        { <<D.txl.color, D.fbl.effect_fb>>, <<D.txl.color_post, D.fbl.main>> }

\* no texture of the target framebuffer is the source
NoFeedback(D) ==
    \A i \in 1 .. Len(D.effects.target_buffer.tex) :
        D.effects.target_buffer.tex[i] # D.effects.source_buffer

\* the states of the call of EEVEE_draw_effects about to run at the
\* boundaries of its blocks, from the initialisation of the pointers to the
\* tonemap, and the state in which it returns
PassPoints ==
    {BlockEntry(EFFECT_MOTION_BLUR)} \cup {BlockExit(e) : e \in PostEffects}

ReturnPoint == draw_effects(DrawState)

\* C27: at every point of EEVEE_draw_effects, the return included, source
\* and target are (txl->color, fbl->effect_fb) or (txl->color_post,
\* fbl->main), and the target does not hold the source.  (After the
\* exchange of line 1276 in a frame without post-process effect the source
\* is the texture that has become txl->color_double_buffer.)
C27_PairAtEveryPoint ==
    pc = "draw_effects" =>
        \A D \in PassPoints \cup ReturnPoint : PairOK(D) /\ NoFeedback(D)

\* C27, amended: from the initialisation of the pointers to the tonemap
\* source and target are one of the two pairs, before and after the exchange
\* made by a SWAP_BUFFERS; the target never holds the source, at the return
\* too; and no pass of the call reads the texture it writes.
C27_PairWhilePassesRun ==
    [][ pc = "draw_effects" =>
           /\ \A D \in PassPoints : PairOK(D) /\ NoFeedback(D)
           /\ \A D \in ReturnPoint : NoFeedback(D)
           /\ \A k \in (Len(cmds) + 1) .. Len(cmds') :
                  cmds'[k].op = "draw" =>
                      \A i \in 1 .. Len(cmds'[k].fb.tex) :
                          cmds'[k].fb.tex[i] \notin cmds'[k].reads ]_vars

\* C27 in a frame with the double buffer and the three effects: the call
\* has returned on the pair (txl->color_post, fbl->main), fbl->main being the
\* framebuffer that was the double buffer on entry
C27_Witness ==
    /\ FrameDrawn
    /\ n_exchange = 1
    /\ Cardinality(PostBits) = 3
    /\ effects.source_buffer = txl.color_post
    /\ effects.target_buffer = fbl.main
    /\ txl.color_double_buffer = entry_color

\* the passes of motion blur, depth of field and bloom
PostPasses == UNION { PassesOf(e) : e \in PostEffects }

\* the textures the post-process passes of the frame wrote
PostWritten ==
    UNION { {cmds[k].fb.tex[i] : i \in 1 .. Len(cmds[k].fb.tex)} :
              k \in {j \in 1 .. Len(cmds) :
                        cmds[j].op = "draw" /\ cmds[j].pass \in PostPasses} }

\* C28: with EFFECT_DOUBLE_BUFFER set, when EEVEE_draw_effects has returned
\* txl->color_double_buffer is the texture that was txl->color on entry, and
\* no motion blur, DoF or bloom pass of the call has written to it, whichever
\* of the three are enabled.
C28_HistoryIsEntryColor ==
    (FrameDrawn /\ EFFECT_DOUBLE_BUFFER \in effects.enabled_effects) =>
        /\ txl.color_double_buffer = entry_color
        /\ entry_color \notin PostWritten

\* C28 with two post-process effects: the second one wrote to the color
\* texture that was the history on entry and is txl->color on return
C28_Witness ==
    /\ FrameDrawn
    /\ EFFECT_DOUBLE_BUFFER \in effects.enabled_effects
    /\ Cardinality(PostBits) = 2
    /\ txl.color_double_buffer = entry_color
    /\ txl.color \in PostWritten

\* C29: with EFFECT_DOUBLE_BUFFER clear, a call of EEVEE_draw_effects leaves
\* fbl->main, fbl->double_buffer, txl->color and txl->color_double_buffer
\* what they were, whichever of motion blur, DoF and bloom are enabled.
C29_NoExchangeWithoutBit ==
    [][ (pc = "draw_effects"
            /\ EFFECT_DOUBLE_BUFFER \notin effects.enabled_effects) =>
           /\ fbl'.main = fbl.main
           /\ fbl'.double_buffer = fbl.double_buffer
           /\ txl'.color = txl.color
           /\ txl'.color_double_buffer = txl.color_double_buffer ]_vars

\* C29 with the three effects and no double buffer: three SWAP_BUFFERS, no
\* exchange, the lists as on entry
C29_Witness ==
    /\ FrameDrawn
    /\ EFFECT_DOUBLE_BUFFER \notin effects.enabled_effects
    /\ Cardinality(PostBits) = 3
    /\ n_exchange = 0
    /\ txl.color = entry_color
    /\ displayed = txl.color_post

\* C30: with bloom and depth of field both enabled, the size of bloom's
\* first downsample buffer, max(floor(viewport / 2), 2) in each dimension,
\* equals the size of the depth of field framebuffer that takes the buffer
\* as near-field target, floor(viewport / 2) in each dimension, for every
\* viewport width and height >= 1.  (They differ for a side below 4.)
C30_AliasedSizesEqual ==
    result.fn = "alias" => result.bloom_downsample = result.dof_down_fb

=============================================================================
